---- MODULE Spec2Model ----
(***************************************************************************)
(* Wind-aware drone routing: lattice (Grid3D), voxel collision (VoxelGrid), *)
(* edge precomputation (CostCalculator, NaiveRouter), the two routers      *)
(* (DijkstraRouter, NaiveRouter A* ), the flight simulation loops and the   *)
(* WebSocket session that sequences them.                                  *)
(*                                                                         *)
(* Positions are integer metres <<x, y, z>> (Y is up).  Euclidean lengths  *)
(* are fixed-point numbers with DistScale units per metre.                 *)
(***************************************************************************)
EXTENDS Integers, Sequences, FiniteSets, TLC

VARIABLES
    boundsMax,   \* Grid3D.bounds_max
    config,      \* ServerConfig: drone_airspeed, simulation_timestep
    triangles,   \* STLMesh.triangles, each reduced to its AABB [lo, hi]
    occupied,    \* VoxelGrid.occupied: the voxel indices set to True
    valid,       \* ids of the GridNodes with is_valid = True
    nodePos,     \* GridNode.position of every node (a Vector3 object each)
    windVel,     \* WindField.wind_data of a 1x1x1 field: one velocity
    weights,     \* CostCalculator.weights, in hundredths
    validEdges,  \* NaiveRouter._valid_edges
    edgeCosts,   \* CostCalculator._edge_costs: (u, v) -> cost
    algo,        \* which router the query is given to
    qStart,      \* find_path argument start
    qEnd,        \* find_path argument end
    rpc,         \* where the find_path call is: idle, searching, returned
    rs,          \* locals of _dijkstra / _astar (pq, costs, previous, visited)
    res,         \* the PathResult find_path returns
    conn,        \* the WebSocket connection: open or closed
    pc,          \* where the connection's message handler is
    req,         \* the message being handled
    sent,        \* the messages sent in answer to it, in order
    found,       \* naive_result / wind_result of run_simulation
    routes,      \* routes_to_run: (name, smoothed path) pairs
    sim,         \* locals of stream_simulation / stream_parallel_simulation
    inbox,       \* messages the connection has received and not yet handled
    other,       \* a second connection's handler, suspended at an await
    fsim,        \* one call of FlightSimulator.simulate
    probe        \* the last direct query of Grid3D / VoxelGrid and its answer

meshVars == <<boundsMax, config, triangles, occupied, valid, windVel, weights,
             validEdges, edgeCosts>>
sceneVars == <<meshVars, nodePos>>
routeVars == <<algo, qStart, qEnd, rpc, rs, res>>
sessVars == <<conn, pc, req, sent, found, routes, sim, inbox, other>>
vars == <<sceneVars, routeVars, sessVars, fsim, probe>>

-----------------------------------------------------------------------------
(* Scene inputs and program constants *)

\* SceneConfig.bounds_min / bounds_max given to Grid3D
GridBoundsMin == <<0, 0, 0>>
SceneBoundsMax == <<20, 5, 20>>
GridBoundsMax == boundsMax

\* a corridor of 8 x 1 x 1 nodes, long enough for every search radius of
\* get_node_at_position
CorridorBoundsMax == <<70, 5, 5>>

\* SceneConfig.grid_resolution
Resolution == 10

\* VoxelGrid voxel_size
VoxelSize == 5

\* segments_intersect_batch num_samples_per_edge
NumSamples == 5

\* get_node_at_position searches shells 1 .. SearchRadius
SearchRadius == 5

\* fixed-point units per metre for Euclidean lengths
DistScale == 1000

\* at most this many triangles in the mesh of a scene
MaxTriangles == 2

\* at most this many lattice nodes marked invalid in a scene
MaxInvalid == 1

\* the lattice nodes a scene may mark invalid (Grid3D.mark_invalid)
InvalidNodes == {0, 4, 8}

\* candidate triangle AABBs of the scenes
TriangleBoxes ==
    { [lo |-> <<2, 0, 2>>,  hi |-> <<6, 5, 6>>],
      [lo |-> <<9, 0, 0>>,  hi |-> <<11, 5, 20>>],
      [lo |-> <<4, 0, 4>>,  hi |-> <<11, 5, 11>>],
      [lo |-> <<12, 0, 12>>,  hi |-> <<18, 5, 18>>],
      [lo |-> <<0, 0, 0>>,  hi |-> <<20, 5, 20>>] }

\* candidate uniform wind velocities (m/s)
WindVels == { <<0, 0, 0>>, <<10, 0, 0>>, <<-8, 0, 6>>, <<-20, 0, 0>> }

\* candidate positions of a client's start request; NoPosition is a request
\* that carries none
NoPosition == <<>>
RequestStarts == { <<1, 0, 4>>, <<13, 0, 8>>, <<5, 0, 5>>, <<25, 0, 4>>, NoPosition }
RequestEnds == { <<19, 0, 2>>, <<2, 0, 1>>, <<8, 0, 8>>, <<3, -1, 3>> }
\* route_type of a start request: the three the server knows and one it
\* does not
RouteTypes == { "naive", "optimized", "both", "fastest" }

\* candidate query positions
StartPositions == { <<1, 0, 4>>, <<0, 0, 0>>, <<3, 2, 13>>, <<18, 0, 19>> }
EndPositions == { <<20, 0, 20>>, <<19, 0, 2>>, <<10, 0, 10>>, <<2, 0, 1>> }

-----------------------------------------------------------------------------
(* Arithmetic helpers *)

Max2(a, b) == IF a >= b THEN a ELSE b
Min2(a, b) == IF a <= b THEN a ELSE b
Clamp(lo, hi, x) == Max2(lo, Min2(hi, x))
Abs(a) == IF a >= 0 THEN a ELSE -a

\* Python round(n / d) for d > 0: nearest integer, ties to the even one
PyRound(n, d) ==
    LET q == n \div d
        r == n % d
    IN  IF 2 * r < d THEN q
        ELSE IF 2 * r > d THEN q + 1
        ELSE IF q % 2 = 0 THEN q ELSE q + 1

\* ceil(n / d) for n >= 0, d > 0
CeilDiv(n, d) == (n + d - 1) \div d

RECURSIVE ISqrtBits(_, _, _)
\* largest k with k*k <= n, found bit by bit from the top
ISqrtBits(n, k, bit) ==
    IF bit = 0 THEN k
    ELSE LET t == k + bit
         IN  ISqrtBits(n, IF t * t <= n THEN t ELSE k, bit \div 2)

ISqrt(n) == ISqrtBits(n, 0, 16384)

\* math.sqrt(sq) in fixed point: round(sqrt(sq) * DistScale), sq in m^2
SqrtFixed(sq) ==
    LET lo == ISqrt(sq * DistScale * DistScale)
    IN  IF lo * lo + lo < sq * DistScale * DistScale THEN lo + 1 ELSE lo

\* Vector3 operations on integer triples
VSub(a, b) == <<a[1] - b[1], a[2] - b[2], a[3] - b[3]>>
VAdd(a, b) == <<a[1] + b[1], a[2] + b[2], a[3] + b[3]>>
VDot(a, b) == a[1] * b[1] + a[2] * b[2] + a[3] * b[3]
MagnitudeSquared(a) == VDot(a, a)
Magnitude(a) == SqrtFixed(MagnitudeSquared(a))

-----------------------------------------------------------------------------
(* Grid3D *)

\* Grid3D.__init__: nx, ny, nz = max(1, int(size / resolution) + 1)
GridDim(a) == Max2(1, ((GridBoundsMax[a] - GridBoundsMin[a]) \div Resolution) + 1)
Nx == GridDim(1)
Ny == GridDim(2)
Nz == GridDim(3)

\* _create_nodes: ids count up with iz fastest, then iy, then ix
NodeIds == 0 .. (Nx * Ny * Nz - 1)
IndexToId(ix, iy, iz) == ix * Ny * Nz + iy * Nz + iz
GridIndex(id) == << id \div (Ny * Nz), (id \div Nz) % Ny, id % Nz >>
NodePosition(id) ==
    LET g == GridIndex(id)
    IN  << GridBoundsMin[1] + g[1] * Resolution,
           GridBoundsMin[2] + g[2] * Resolution,
           GridBoundsMin[3] + g[3] * Resolution >>

InGrid(ix, iy, iz) ==
    /\ 0 <= ix /\ ix < Nx
    /\ 0 <= iy /\ iy < Ny
    /\ 0 <= iz /\ iz < Nz

\* Chebyshev distance between the grid indices of two nodes
Chebyshev(u, v) ==
    LET a == GridIndex(u)
        b == GridIndex(v)
    IN  Max2(Abs(a[1] - b[1]), Max2(Abs(a[2] - b[2]), Abs(a[3] - b[3])))

\* Grid3D.get_neighbors: the valid nodes at the 26 NEIGHBOR_OFFSETS
GetNeighbors(validSet, u) ==
    { v \in validSet : Chebyshev(u, v) = 1 }

\* the clamped nearest-index node of get_node_at_position
ClampedIndex(pos) ==
    << Clamp(0, Nx - 1, PyRound(pos[1] - GridBoundsMin[1], Resolution)),
       Clamp(0, Ny - 1, PyRound(pos[2] - GridBoundsMin[2], Resolution)),
       Clamp(0, Nz - 1, PyRound(pos[3] - GridBoundsMin[3], Resolution)) >>

\* the valid nodes on the shell of Chebyshev radius r around grid index c
ShellValid(validSet, c, r) ==
    { v \in validSet :
        LET g == GridIndex(v)
        IN  Max2(Abs(g[1] - c[1]), Max2(Abs(g[2] - c[2]), Abs(g[3] - c[3]))) = r }

\* a scan that keeps the farthest node of the shell instead of the nearest
ShellFarthest(cands, pos) ==
    CHOOSE v \in cands :
        \A w \in cands :
            LET dv == MagnitudeSquared(VSub(NodePosition(v), pos))
                dw == MagnitudeSquared(VSub(NodePosition(w), pos))
            IN  dv > dw \/ (dv = dw /\ v <= w)

\* the shell's node kept by the "dist < best_dist" scan: least distance to
\* pos, the first in scan order (ascending dx, dy, dz = ascending id) on ties
ShellBest(cands, pos) ==
    CHOOSE v \in cands :
        \A w \in cands :
            LET dv == MagnitudeSquared(VSub(NodePosition(v), pos))
                dw == MagnitudeSquared(VSub(NodePosition(w), pos))
            IN  dv < dw \/ (dv = dw /\ v <= w)

RECURSIVE SearchShells(_, _, _, _, _)
SearchShells(validSet, c, pos, r, fallback) ==
    IF r > SearchRadius THEN fallback
    ELSE LET cands == ShellValid(validSet, c, r)
         IN  IF cands # {} THEN ShellBest(cands, pos)
             ELSE SearchShells(validSet, c, pos, r + 1, fallback)

\* Grid3D.get_node_at_position(position, prefer_valid=True)
GetNodeAtPosition(validSet, pos) ==
    LET c == ClampedIndex(pos)
        node == IndexToId(c[1], c[2], c[3])
    IN  IF node \in validSet THEN node
        ELSE SearchShells(validSet, c, pos, 1, node)

-----------------------------------------------------------------------------
(* STLMesh bounds and VoxelGrid *)

SetMin(S) == CHOOSE x \in S : \A y \in S : x <= y
SetMax(S) == CHOOSE x \in S : \A y \in S : x >= y

\* STLMesh.min_bounds / max_bounds: the extent of all triangle vertices
MeshMinBounds(tris) == [a \in 1..3 |-> SetMin({ t.lo[a] : t \in tris })]
MeshMaxBounds(tris) == [a \in 1..3 |-> SetMax({ t.hi[a] : t \in tris })]

\* VoxelGrid.__init__: nx, ny, nz = max(1, ceil(size / voxel_size))
VoxelDim(tris, a) ==
    Max2(1, CeilDiv(MeshMaxBounds(tris)[a] - MeshMinBounds(tris)[a], VoxelSize))

\* VoxelGrid.__init__: the voxel index range of one triangle's AABB on axis a
TriVoxelRange(tris, t, a) ==
    Max2(0, (t.lo[a] - MeshMinBounds(tris)[a]) \div VoxelSize) ..
    Min2(VoxelDim(tris, a) - 1, (t.hi[a] - MeshMinBounds(tris)[a]) \div VoxelSize)

\* VoxelGrid.__init__: the occupancy grid, as the set of voxels set to True
Voxelize(tris) ==
    UNION { TriVoxelRange(tris, t, 1) \X TriVoxelRange(tris, t, 2)
                \X TriVoxelRange(tris, t, 3) : t \in tris }

\* VoxelGrid.point_occupied
PointOccupied(tris, occ, p) ==
    LET mn == MeshMinBounds(tris)
        mx == MeshMaxBounds(tris)
    IN  /\ \A a \in 1..3 : p[a] >= mn[a] /\ p[a] <= mx[a]
        /\ << Clamp(0, VoxelDim(tris, 1) - 1, (p[1] - mn[1]) \div VoxelSize),
              Clamp(0, VoxelDim(tris, 2) - 1, (p[2] - mn[2]) \div VoxelSize),
              Clamp(0, VoxelDim(tris, 3) - 1, (p[3] - mn[3]) \div VoxelSize) >>
               \in occ

\* sample k of np.linspace(0, 1, NumSamples) along p0 -> p1, as the numerator
\* of a fraction with denominator NumSamples - 1
SampleNum(p0, p1, k) ==
    [a \in 1..3 |-> p0[a] * (NumSamples - 1) + k * (p1[a] - p0[a])]

\* segments_intersect_batch: is sample point s (numerators) in an occupied voxel
SampleOccupied(tris, occ, s) ==
    LET mn == MeshMinBounds(tris)
        mx == MeshMaxBounds(tris)
        d  == NumSamples - 1
    IN  /\ \A a \in 1..3 : s[a] >= mn[a] * d /\ s[a] <= mx[a] * d
        /\ << Clamp(0, VoxelDim(tris, 1) - 1, (s[1] - mn[1] * d) \div (VoxelSize * d)),
              Clamp(0, VoxelDim(tris, 2) - 1, (s[2] - mn[2] * d) \div (VoxelSize * d)),
              Clamp(0, VoxelDim(tris, 3) - 1, (s[3] - mn[3] * d) \div (VoxelSize * d)) >>
               \in occ

\* VoxelGrid.segments_intersect_batch for one segment p0 -> p1
SegmentIntersects(tris, occ, p0, p1) ==
    LET mn == MeshMinBounds(tris)
        mx == MeshMaxBounds(tris)
        aboveMesh == Min2(p0[2], p1[2]) > mx[2] + VoxelSize
        outsideXZ == \/ Max2(p0[1], p1[1]) < mn[1] - VoxelSize
                     \/ Min2(p0[1], p1[1]) > mx[1] + VoxelSize
                     \/ Max2(p0[3], p1[3]) < mn[3] - VoxelSize
                     \/ Min2(p0[3], p1[3]) > mx[3] + VoxelSize
    IN  /\ ~(aboveMesh \/ outsideXZ)
        /\ \E k \in 0 .. (NumSamples - 1) :
              SampleOccupied(tris, occ, SampleNum(p0, p1, k))

\* the point p0 + (i / d) * (p1 - p0), as numerators over the denominator d
SampleAt(p0, p1, i, d) == [a \in 1..3 |-> p0[a] * d + i * (p1[a] - p0[a])]

\* the bounds test and voxel lookup of segment_intersects for a sample point
\* given as numerators s over the denominator d
FractionOccupied(tris, occ, s, d) ==
    LET mn == MeshMinBounds(tris)
        mx == MeshMaxBounds(tris)
    IN  /\ \A a \in 1..3 : s[a] >= mn[a] * d /\ s[a] <= mx[a] * d
        /\ << Clamp(0, VoxelDim(tris, 1) - 1, (s[1] - mn[1] * d) \div (VoxelSize * d)),
              Clamp(0, VoxelDim(tris, 2) - 1, (s[2] - mn[2] * d) \div (VoxelSize * d)),
              Clamp(0, VoxelDim(tris, 3) - 1, (s[3] - mn[3] * d) \div (VoxelSize * d)) >>
               \in occ

\* segment_intersects: num_steps = max(2, int(length / (voxel_size * 0.5)) + 1)
NumSteps(p0, p1) ==
    Max2(2, ISqrt((4 * MagnitudeSquared(VSub(p1, p0))) \div (VoxelSize * VoxelSize)) + 1)

\* VoxelGrid.segment_intersects (the scalar query)
SegmentIntersectsScalar(tris, occ, p0, p1) ==
    LET mn == MeshMinBounds(tris)
        mx == MeshMaxBounds(tris)
        aboveMesh == Min2(p0[2], p1[2]) > mx[2] + VoxelSize
        outsideXZ == \/ Max2(p0[1], p1[1]) < mn[1] - VoxelSize
                     \/ Min2(p0[1], p1[1]) > mx[1] + VoxelSize
                     \/ Max2(p0[3], p1[3]) < mn[3] - VoxelSize
                     \/ Min2(p0[3], p1[3]) > mx[3] + VoxelSize
        n == NumSteps(p0, p1)
    IN  /\ ~(aboveMesh \/ outsideXZ)
        /\ IF p0 = p1 THEN PointOccupied(tris, occ, p0)
           ELSE \E i \in 0 .. (n - 1) :
                   FractionOccupied(tris, occ, SampleAt(p0, p1, i, n - 1), n - 1)

\* a check that looks only at the start point and the next sample of an edge
EdgeValidNearStart(tris, occ, p0, p1) ==
    \A k \in 0 .. 1 : ~SampleOccupied(tris, occ, SampleNum(p0, p1, k))

\* MeshCollisionChecker.edges_valid_batch for one edge
EdgeValidBatch(tris, occ, p0, p1) == ~SegmentIntersects(tris, occ, p0, p1)

-----------------------------------------------------------------------------
(* Edge precomputation: NaiveRouter._valid_edges and CostCalculator._edge_costs *)

\* the directed edges between valid 26-neighbours, before collision checking
PotentialEdges(validSet) ==
    { e \in validSet \X validSet : Chebyshev(e[1], e[2]) = 1 }

\* NaiveRouter.precompute_valid_edges with a batch collision checker
PrecomputeValidEdges(tris, occ, validSet) ==
    { e \in PotentialEdges(validSet) :
        EdgeValidBatch(tris, occ, NodePosition(e[1]), NodePosition(e[2])) }

\* WeightConfig.speed_priority(), in hundredths
WDistance == 30
WHeadwind == 60

\* the presets of WeightConfig, in hundredths
SpeedPriority == [distance |-> 30, headwind |-> 60, turbulence |-> 10]
Balanced == [distance |-> 34, headwind |-> 33, turbulence |-> 33]
DistanceOnly == [distance |-> 100, headwind |-> 0, turbulence |-> 0]

\* cost of one edge in precompute_edge_costs_vectorized, in units of
\* 1 / (200 * DistScale): wind alignment * distance is the exact dot product
\* wind . (end - start); a tailwind is credited at tailwind_benefit = 1/2; the
\* uniform field carries no turbulence, so the turbulence term is zero; the
\* total is clamped at zero
ComputeEdgeCost(wind, u, v) ==
    LET diff == VSub(NodePosition(v), NodePosition(u))
        dist == Magnitude(diff)
        wd   == VDot(wind, diff)
        headwind2 == IF wd < 0 THEN -2 * wd * DistScale ELSE -wd * DistScale
    IN  Max2(0, 2 * WDistance * dist + WHeadwind * headwind2)

\* CostCalculator.precompute_edge_costs_vectorized: (u, v) -> cost for the
\* potential edges that pass the batch collision check
PrecomputeEdgeCosts(tris, occ, validSet, wind) ==
    [ e \in PrecomputeValidEdges(tris, occ, validSet) |->
        ComputeEdgeCost(wind, e[1], e[2]) ]

-----------------------------------------------------------------------------
(* DijkstraRouter and NaiveRouter *)

NoNode == -1     \* "not in the dict" for costs / g_scores / previous
Infinity == -1   \* PathResult.total_cost of a failed search (float('inf'))

\* heapq.heappop: the least tuple of the queue, compared lexicographically
TupleLess(a, b) ==
    \E i \in 1 .. Len(a) :
        /\ a[i] < b[i]
        /\ \A j \in 1 .. (i - 1) : a[j] = b[j]
\* a queue that hands out its greatest entry instead of its least
PqMax(pq) == CHOOSE t \in pq : \A o \in pq : o = t \/ TupleLess(o, t)
PqMin(pq) == CHOOSE t \in pq : \A o \in pq : o = t \/ TupleLess(t, o)

\* the locals of _dijkstra / _astar before the while loop; h0 is the start's
\* heuristic for A*, absent from Dijkstra's (cost, id) entries
SearchInit(isAstar, startId, endId) ==
    [ pq       |-> IF isAstar
                   THEN { << Magnitude(VSub(NodePosition(endId), NodePosition(startId))),
                             0, startId >> }
                   ELSE { << 0, startId >> },
      costs    |-> [n \in NodeIds |-> IF n = startId THEN 0 ELSE NoNode],
      previous |-> [n \in NodeIds |-> NoNode],
      visited  |-> {},
      startId  |-> startId,
      endId    |-> endId,
      found    |-> FALSE,
      total    |-> Infinity ]

\* one iteration of the while loop of DijkstraRouter._dijkstra
DijkstraIter(costTable, validSet, s) ==
    LET top == PqMin(s.pq)
        currentCost == top[1]
        currentId   == top[2]
        pq1 == s.pq \ {top}
    IN  IF currentId \in s.visited THEN [s EXCEPT !.pq = pq1]
        ELSE
        LET vis == s.visited \cup {currentId}
        IN  IF currentId = s.endId
            THEN [s EXCEPT !.pq = pq1, !.visited = vis,
                           !.found = TRUE, !.total = currentCost]
            ELSE
            LET better == { n \in GetNeighbors(validSet, currentId) :
                              /\ n \notin vis
                              /\ <<currentId, n>> \in DOMAIN costTable
                              /\ \/ s.costs[n] = NoNode
                                 \/ currentCost + costTable[<<currentId, n>>]
                                        < s.costs[n] }
                newCost(n) == currentCost + costTable[<<currentId, n>>]
            IN  [s EXCEPT
                   !.pq = pq1 \cup { <<newCost(n), n>> : n \in better },
                   !.visited = vis,
                   !.costs = [n \in NodeIds |->
                                 IF n \in better THEN newCost(n) ELSE s.costs[n]],
                   !.previous = [n \in NodeIds |->
                                 IF n \in better THEN currentId ELSE s.previous[n]]]

\* NaiveRouter._edge_valid
EdgeValid(vEdges, u, v) == IF vEdges = {} THEN TRUE ELSE <<u, v>> \in vEdges

\* an edge cost that prices every edge as an axis-parallel one
AstarEdgeCostStraight(u, v) == Resolution * DistScale

\* NaiveRouter._heuristic and NaiveRouter._edge_cost: Euclidean distance
Heuristic(n, goal) == Magnitude(VSub(NodePosition(goal), NodePosition(n)))
AstarEdgeCost(u, v) == Magnitude(VSub(NodePosition(v), NodePosition(u)))

\* one iteration of the while loop of NaiveRouter._astar
AstarIter(vEdges, validSet, s) ==
    LET top == PqMin(s.pq)
        gScore    == top[2]
        currentId == top[3]
        pq1 == s.pq \ {top}
    IN  IF currentId \in s.visited THEN [s EXCEPT !.pq = pq1]
        ELSE
        LET vis == s.visited \cup {currentId}
        IN  IF currentId = s.endId
            THEN [s EXCEPT !.pq = pq1, !.visited = vis,
                           !.found = TRUE, !.total = gScore]
            ELSE
            LET tentative(n) == gScore + AstarEdgeCost(currentId, n)
                better == { n \in GetNeighbors(validSet, currentId) :
                              /\ n \notin vis
                              /\ EdgeValid(vEdges, currentId, n)
                              /\ \/ s.costs[n] = NoNode
                                 \/ tentative(n) < s.costs[n] }
            IN  [s EXCEPT
                   !.pq = pq1 \cup { << tentative(n) + Heuristic(n, s.endId),
                                        tentative(n), n >> : n \in better },
                   !.visited = vis,
                   !.costs = [n \in NodeIds |->
                                 IF n \in better THEN tentative(n) ELSE s.costs[n]],
                   !.previous = [n \in NodeIds |->
                                 IF n \in better THEN currentId ELSE s.previous[n]]]

\* the while loop has ended: the end node was popped or the queue is empty
SearchOver(s) == s.found \/ s.pq = {}

RECURSIVE ReconstructIds(_, _, _)
\* _reconstruct_path: follow the previous pointers back from node cur;
\* acc is the part of the path already collected behind cur
ReconstructIds(previous, cur, acc) ==
    IF previous[cur] = NoNode THEN <<cur>> \o acc
    ELSE ReconstructIds(previous, previous[cur], <<cur>> \o acc)

\* find_path's PathResult when the snapped start or end node is invalid
FailedResult(explored) ==
    [ success |-> FALSE, path |-> <<>>, pathNodeIds |-> <<>>,
      totalCost |-> Infinity, nodesExplored |-> explored ]

\* path[0] = start; path[-1] = end  (the second assignment is made last)
OverrideEndpoints(path, start, end) ==
    IF path = <<>> THEN path
    ELSE [ [path EXCEPT ![1] = start] EXCEPT ![Len(path)] = end ]

\* a variant of the override that writes the requested positions into the
\* Vector3 objects the path refers to, which are the nodes' positions
PositionsWrittenThrough(nodes, ids, start, end) ==
    IF ids = <<>> THEN nodes
    ELSE [ [nodes EXCEPT ![ids[1]] = start] EXCEPT ![ids[Len(ids)]] = end ]

\* _reconstruct_path fills the path with the nodes' own position objects;
\* "result.path[0] = start; result.path[-1] = end" rebinds two slots of the
\* list and writes to no position object
PositionsAfterOverride(nodes, ids, start, end) == nodes

\* the PathResult find_path returns once the search loop is over
SearchResult(s, start, end) ==
    IF s.found
    THEN LET ids == ReconstructIds(s.previous, s.endId, <<>>)
         IN  [ success |-> TRUE,
               path |-> OverrideEndpoints([i \in 1 .. Len(ids) |-> NodePosition(ids[i])],
                                          start, end),
               pathNodeIds |-> ids,
               totalCost |-> s.total,
               nodesExplored |-> Cardinality(s.visited) ]
    ELSE FailedResult(Cardinality(s.visited))

-----------------------------------------------------------------------------
(* Flight along a waypoint list *)

(* The simulators are modelled on one axis: a waypoint list is a sequence of *)
(* positions in centimetres along X, the wind blows along X (its speed in   *)
(* m/s is the first component of windVel), a direction or heading is -1, 0  *)
(* or 1, and time is counted in timesteps.  One m/s moves the drone         *)
(* CmPerStep centimetres in one timestep.                                   *)

\* SimulationParams.max_time / timestep: iterations before the loop times out
MaxTimeTicks == 5

\* the waypoint lists PathSmoother.smooth hands to the simulators for a path
\* of two or more positions, and the lists given to FlightSimulator.simulate
WaypointLists ==
    { <<0, 100, 200, 300, 400>>,
      <<0, 200, 400, 600, 800>>,
      <<0, 300, 600, 0, -600>>,
      <<0, 500, 1000, 1500, 2000>> }

DroneAirspeed == 15             \* ServerConfig.drone_airspeed, m/s
TimestepCm == 10                \* ServerConfig.simulation_timestep 0.1 s, in
                                \* centimetres flown per m/s
\* ServerConfig as it is by default; with a base airspeed above the boost
\* limit; with a timestep so short (0.0001 s) that no step moves a centimetre
DefaultConfig == [ droneAirspeed |-> DroneAirspeed, cmPerStep |-> TimestepCm ]
Configs ==
    { DefaultConfig,
      [ droneAirspeed |-> 250, cmPerStep |-> TimestepCm ],
      [ droneAirspeed |-> DroneAirspeed, cmPerStep |-> 0 ] }
CmPerStep == config.cmPerStep   \* sim_params.timestep
WaypointThreshold == 500        \* waypoint_threshold = 5.0 m
BaseAirspeed == config.droneAirspeed  \* base_airspeed = sim_params.max_airspeed
MaxBoostAirspeed == 200         \* max_boost_airspeed, m/s
MinDesiredGroundspeed == 15     \* min_desired_groundspeed, m/s
MinGroundspeed == 10            \* min_groundspeed, m/s
StallMovement == 5              \* movement < 0.05 m
ForcedMovement == 50            \* forced_movement = 0.5 m
SkipLimit == 100                \* waypoints_skipped > 100
StreamTurnDeg == 36             \* max_turn_rate 360 deg/s * timestep
SimulateTurnDeg == 9            \* max_turn_rate 90 deg/s * timestep

Sign(x) == IF x > 0 THEN 1 ELSE IF x < 0 THEN -1 ELSE 0

\* _direction_to: the unit vector from one point to another, (1, 0, 0) when
\* the two coincide
DirectionTo(from, to) == IF to = from THEN 1 ELSE Sign(to - from)

\* the interpolated heading current * (1 - t) + target * t of a turn of 180
\* degrees limited to maxDeg per step, normalised
HalfTurn(current, target, maxDeg) ==
    IF maxDeg >= 180 THEN target
    ELSE Sign(current * (180 - maxDeg) + target * maxDeg)

\* _compute_corrected_heading on the axis: the wind has no component
\* perpendicular to a non-zero desired direction, so nothing is corrected;
\* against a zero desired direction the whole wind is perpendicular and the
\* heading points into it
CorrectedHeading(desired, wind) ==
    IF wind = 0 \/ desired # 0 THEN desired ELSE -Sign(wind)

\* WebSocketServer._turn_toward on the axis
TurnToward(current, target) ==
    IF current = 0 THEN (IF target # 0 THEN target ELSE 1)
    ELSE IF target = 0 THEN current
    ELSE IF current = target THEN target
    ELSE HalfTurn(current, target, StreamTurnDeg)

\* FlightSimulator._turn_toward on the axis (a zero target is 90 degrees away)
SimTurnToward(current, target) ==
    IF current * target = 1 THEN target
    ELSE IF target = 0 THEN Sign(current * (90 - SimulateTurnDeg))
    ELSE HalfTurn(current, target, SimulateTurnDeg)

\* "while distance_to_target < waypoint_threshold": the target index after
\* the loop (0-based as in the code), entered with the index idx after
\* skipped increments.  The loop stops at the first index whose waypoint is
\* not within the threshold, or past the last waypoint; single is TRUE for
\* stream_simulation, which also stops once waypoints_skipped > SkipLimit
AdvanceWaypoints(path, pos, idx, skipped, single) ==
    LET stops == { j \in idx .. Len(path) :
                     j = Len(path) \/ Abs(path[j + 1] - pos) >= WaypointThreshold }
        free  == SetMin(stops)
        limit == idx + (SkipLimit + 1 - skipped)
    IN  IF single /\ free > limit THEN limit ELSE free

\* a drone that is left where it stalled
StalledPosition(pos, final) == pos

\* "state.position = old_position + to_final * forced_movement"
ForcedPosition(pos, final) == pos + final * ForcedMovement

\* DroneState at the start of the streaming loops and of simulate
InitialDrone(path) ==
    [ pos |-> path[1], heading |-> DirectionTo(path[1], path[2]),
      airspeed |-> BaseAirspeed, idx |-> 1 ]

\* one pass of the body of the streaming loops for one drone whose target
\* index is inside the path: [done, d] when the drone ran out of waypoints,
\* otherwise the frame to send and the drone after the position update;
\* single is TRUE for stream_simulation, FALSE for stream_parallel_simulation
StreamBody(path, d, wind, time, single) ==
    LET idx == AdvanceWaypoints(path, d.pos, d.idx, 0, single)
    IN  IF idx >= Len(path)
        THEN [ done |-> TRUE, d |-> [d EXCEPT !.idx = idx],
               frame |-> [time |-> time, pos |-> d.pos, wp |-> idx,
                          heading |-> d.heading, airspeed |-> d.airspeed] ]
        ELSE
        LET toTarget == path[idx + 1] - d.pos
            toFinal  == path[Len(path)] - d.pos
            dir1 == Sign(toTarget)
            dir2 == IF dir1 = 0 THEN d.heading ELSE dir1
            dir3 == IF dir2 = 0 /\ single THEN Sign(toFinal) ELSE dir2
            desired == IF dir3 = 0 THEN -1 ELSE dir3
            required == -(wind * desired) + MinDesiredGroundspeed
            airspeed == Max2(BaseAirspeed, Min2(MaxBoostAirspeed, required))
            turned == TurnToward(d.heading, CorrectedHeading(desired, wind))
            heading == IF turned = 0 THEN desired ELSE turned
            raw == heading * airspeed + wind
            velocity == IF Abs(raw) < MinGroundspeed
                        THEN desired * MinGroundspeed ELSE raw
            moved == d.pos + velocity * CmPerStep
            stalled == Abs(moved - d.pos) < StallMovement
            final == IF Sign(toFinal) = 0 THEN -1 ELSE Sign(toFinal)
        IN  [ done |-> FALSE,
              d |-> [ pos |-> IF stalled THEN ForcedPosition(d.pos, final)
                              ELSE moved,
                      heading |-> IF stalled THEN final ELSE heading,
                      airspeed |-> airspeed,
                      idx |-> idx ],
              frame |-> [time |-> time, pos |-> d.pos, wp |-> idx,
                         heading |-> heading, airspeed |-> airspeed] ]

\* one pass of the body of the loop of FlightSimulator.simulate: a single
\* waypoint check, no airspeed boost, the frame taken after the move
SimulateBody(path, d, wind, time) ==
    LET idx == IF Abs(path[d.idx + 1] - d.pos) < WaypointThreshold
               THEN d.idx + 1 ELSE d.idx
    IN  IF idx >= Len(path)
        THEN [ done |-> TRUE, d |-> [d EXCEPT !.idx = idx],
               frame |-> [time |-> time, pos |-> d.pos, wp |-> idx,
                          heading |-> d.heading, airspeed |-> d.airspeed] ]
        ELSE
        LET desired == Sign(path[idx + 1] - d.pos)
            heading == SimTurnToward(d.heading, CorrectedHeading(desired, wind))
            velocity == heading * d.airspeed + wind
            moved == d.pos + velocity * CmPerStep
        IN  [ done |-> FALSE,
              d |-> [ pos |-> moved, heading |-> heading,
                      airspeed |-> d.airspeed, idx |-> idx ],
              frame |-> [time |-> time, pos |-> moved, wp |-> idx,
                         heading |-> heading, airspeed |-> d.airspeed] ]

-----------------------------------------------------------------------------
(* The scene after construction, and one find_path call on a router *)

NoResult == [ success |-> FALSE, path |-> <<>>, pathNodeIds |-> <<>>,
              totalCost |-> Infinity, nodesExplored |-> 0 ]
NoSearch == SearchInit(FALSE, 0, 0)

NoRequest == [ type |-> "none", start |-> NoPosition, end |-> NoPosition,
               routeType |-> "both", startInside |-> FALSE, endInside |-> FALSE,
               afterError |-> FALSE, sceneSent |-> FALSE ]
NotCalled == [ called |-> FALSE, success |-> FALSE, exhausted |-> FALSE,
               explored |-> 0 ]
NoneFound == [ naive |-> NotCalled, optimized |-> NotCalled ]
NoDrone == [ pos |-> 0, heading |-> 0, airspeed |-> 0, idx |-> 0 ]
NoSim == [ time |-> 0, step |-> 0, cur |-> 0,
           drone |-> [naive |-> NoDrone, optimized |-> NoDrone],
           completed |-> [naive |-> FALSE, optimized |-> FALSE],
           failed |-> "none" ]

\* no second connection
NoSession == [ pc |-> "none" ]

NoFlight == [ pc |-> "off", path |-> <<0>>, interval |-> 1, d |-> NoDrone,
              time |-> 0, step |-> 0, frames |-> <<>>, completed |-> FALSE ]

NoProbe == [ kind |-> "none" ]

\* the scene once the mesh is voxelized and both edge precomputations ran
SceneInit(boxes, mayBeInvalid) ==
    /\ boundsMax = SceneBoundsMax
    /\ config = DefaultConfig
    /\ weights = SpeedPriority
    /\ nodePos = [id \in NodeIds |-> NodePosition(id)]
    /\ triangles \in { T \in SUBSET boxes :
                         Cardinality(T) >= 1 /\ Cardinality(T) <= MaxTriangles }
    /\ occupied = Voxelize(triangles)
    /\ valid \in { NodeIds \ I : I \in { J \in SUBSET mayBeInvalid :
                                           Cardinality(J) <= MaxInvalid } }
    /\ windVel \in WindVels
    /\ validEdges = PrecomputeValidEdges(triangles, occupied, valid)
    /\ edgeCosts = PrecomputeEdgeCosts(triangles, occupied, valid, windVel)

RouteIdle ==
    /\ algo = "none"
    /\ qStart = <<0, 0, 0>>
    /\ qEnd = <<0, 0, 0>>
    /\ rpc = "idle"
    /\ rs = NoSearch
    /\ res = NoResult

\* find_path up to the start of the search loop: snap both positions, give
\* up if a snapped node is invalid
FindPathEnter(a, start, end) ==
    /\ algo' = a
    /\ qStart' = start
    /\ qEnd' = end
    /\ LET startNode == GetNodeAtPosition(valid, start)
           endNode   == GetNodeAtPosition(valid, end)
       IN  IF startNode \notin valid \/ endNode \notin valid
           THEN /\ rpc' = "returned"
                /\ rs' = NoSearch
                /\ res' = FailedResult(0)
           ELSE /\ rpc' = "searching"
                /\ rs' = SearchInit(a = "astar", startNode, endNode)
                /\ res' = NoResult

\* find_path is called while no other call is under way
FindPathBegin(a, start, end) == rpc = "idle" /\ FindPathEnter(a, start, end)

DijkstraStep ==
    /\ rpc = "searching" /\ algo = "dijkstra" /\ ~SearchOver(rs)
    /\ rs' = DijkstraIter(edgeCosts, valid, rs)
    /\ UNCHANGED <<sceneVars, fsim, probe, sessVars, algo, qStart, qEnd, rpc, res>>

AstarStep ==
    /\ rpc = "searching" /\ algo = "astar" /\ ~SearchOver(rs)
    /\ rs' = AstarIter(validEdges, valid, rs)
    /\ UNCHANGED <<sceneVars, fsim, probe, sessVars, algo, qStart, qEnd, rpc, res>>

\* the search loop is over: build the PathResult, override the endpoints
FindPathReturn ==
    /\ rpc = "searching" /\ SearchOver(rs)
    /\ res' = SearchResult(rs, qStart, qEnd)
    /\ nodePos' = PositionsAfterOverride(nodePos, res'.pathNodeIds, qStart, qEnd)
    /\ rpc' = "returned"
    /\ UNCHANGED <<meshVars, fsim, probe, sessVars, algo, qStart, qEnd, rs>>

\* a caller of the routing library asks one router for one path
FindPathCall ==
    /\ pc = "off"
    /\ \E a \in {"dijkstra", "astar"}, start \in StartPositions, end \in EndPositions :
          FindPathBegin(a, start, end)
    /\ UNCHANGED <<sceneVars, fsim, probe, sessVars>>

\* no server is running
SessionOff ==
    /\ conn = "closed"
    /\ pc = "off"
    /\ req = NoRequest
    /\ sent = <<>>
    /\ found = NoneFound
    /\ routes = <<>>
    /\ sim = NoSim
    /\ inbox = <<>>
    /\ other = NoSession

\* no simulate call is under way and nothing was queried directly
SimulatorIdle == fsim = NoFlight /\ probe = NoProbe

InitRoute == SceneInit(TriangleBoxes, InvalidNodes) /\ RouteIdle /\ SessionOff
             /\ SimulatorIdle
NextRoute == FindPathCall \/ DijkstraStep \/ AstarStep \/ FindPathReturn
SpecRoute == InitRoute /\ [][NextRoute]_vars

-----------------------------------------------------------------------------
(* One client connection of WebSocketServer *)

\* the server builds the scene from a mesh that lies strictly inside the
\* bounds (initialize adds a margin around it) and never marks a node invalid
ServerBoxes ==
    { b \in TriangleBoxes :
        \A a \in {1, 3} : GridBoundsMin[a] < b.lo[a] /\ b.hi[a] < GridBoundsMax[a] }

\* the wind the drones meet along the flight axis
AxisWinds == { w \in WindVels : w[2] = 0 /\ w[3] = 0 }

Msg(type, route, time, pos, wp) ==
    [ type |-> type, route |-> route, time |-> time, pos |-> pos, wp |-> wp,
      heading |-> 0, airspeed |-> 0 ]
Plain(type) == Msg(type, "none", 0, 0, 0)
RouteMsg(type, route) == Msg(type, route, 0, 0, 0)
FrameMsg(route, f) ==
    [ Msg("frame", route, f.time, f.pos, f.wp) EXCEPT
        !.heading = f.heading, !.airspeed = f.airspeed ]

\* the answer of handle_message to a message that is not a start request
QueryTypes == { "get_scene", "get_wind_field", "get_all", "ping", "unknown",
                "invalid_json" }
Reply(t) ==
    CASE t = "get_scene" -> "scene"
      [] t = "get_wind_field" -> "wind_field"
      [] t = "get_all" -> "full_scene"
      [] t = "ping" -> "pong"
      [] OTHER -> "error"

InBounds(p) == \A a \in 1 .. 3 : GridBoundsMin[a] <= p[a] /\ p[a] <= GridBoundsMax[a]

\* STLMesh.point_inside can only say yes for a point within the mesh bounds;
\* what it says there depends on the triangles' orientation, which the
\* voxel model does not carry
InsideOutcomes(p) ==
    IF p # NoPosition
       /\ \A a \in 1 .. 3 : MeshMinBounds(triangles)[a] <= p[a]
                            /\ p[a] <= MeshMaxBounds(triangles)[a]
    THEN BOOLEAN ELSE {FALSE}

\* a variant of _validate_position that checks the bounds only
ValidatePositionBoundsOnly(p, inside) == InBounds(p)

\* _validate_position returns None
ValidatePosition(p, inside) ==
    /\ InBounds(p)
    /\ ~PointOccupied(triangles, occupied, p)
    /\ ~inside

\* handle_message lets a start request through to run_simulation
RequestAccepted(r) ==
    /\ r.start # NoPosition /\ r.end # NoPosition
    /\ ValidatePosition(r.start, r.startInside)
    /\ ValidatePosition(r.end, r.endInside)

\* the routes run_simulation looks for: 'if route_type in ("naive", "both")',
\* 'if route_type in ("optimized", "both")'
NeededRoutes(routeType) ==
    CASE routeType = "naive" -> <<"naive">>
      [] routeType = "optimized" -> <<"optimized">>
      [] routeType = "both" -> <<"naive", "optimized">>
      [] OTHER -> <<>>

\* a variant in which a failed PathResult is taken for a path
RouteNeverFailed(result) == FALSE

\* "if naive_result.success: ... else: send_error; return"
RouteFailed(result) == ~result.success

\* PathSmoother.smooth followed along the flight axis: a path of fewer than
\* two positions is returned as it is, a longer one becomes a waypoint list
Smooth(path) == IF Len(path) < 2 THEN { <<0>> } ELSE WaypointLists

\* a variant in which the simulation starts after the first simulation_start
StartsSentEarly(rts, cur) == cur > 1

\* the loop that sends simulation_start for every route is over
StartsSent(rts, cur) == cur > Len(rts)

\* a variant in which the for loop over the drones ends after the first one
DronesDoneEarly(cur) == cur > 1

\* the for loop over [name1, name2] of one parallel step is over
DronesDone(cur) == cur > 2

\* a variant of the end of a loop iteration in which the clock stands still
LoopStall(s) == [s EXCEPT !.step = s.step + 1]

\* "time += timestep; step += 1" at the end of a loop iteration
LoopAdvance(s) == [s EXCEPT !.time = s.time + 1, !.step = s.step + 1]

SessionIdle ==
    /\ conn = "open"
    /\ pc = "idle"
    /\ req = NoRequest
    /\ sent = <<>>
    /\ found = NoneFound
    /\ routes = <<>>
    /\ sim = NoSim
    /\ inbox = <<>>
    /\ other = NoSession

\* a variant of websocket.send that never raises
SendNeverFails(c) == FALSE

\* websocket.send raises ConnectionClosed once the client has gone
SendFails(c) == c # "open"

\* the exception leaves run_simulation and handle_message; "except Exception"
\* of handle_client catches it and calls send_error, whose send raises again;
\* "except ConnectionClosed" ends handle_client. type is the message whose
\* send raised first
SendRaised(s, type) == [s EXCEPT !.failed = type]

\* the client closes the connection: "async for message in websocket" ends if
\* the handler is waiting for a message, otherwise the handler runs on until
\* its next send
Disconnect ==
    /\ conn = "open"
    /\ conn' = "closed"
    /\ pc' = IF pc = "idle" THEN "closed" ELSE pc
    /\ UNCHANGED <<sceneVars, fsim, probe, inbox, other, routeVars, req, sent, found, routes, sim>>

\* a handler that gives up the connection after it has sent an error
AfterReplyErrorEnds(type) == IF type = "error" THEN "closed" ELSE "idle"

\* handle_message has returned, or raised and send_error was sent:
\* handle_client is back at "async for message in websocket"
AfterReply(type) == "idle"

\* the last message sent to the client is an error
LastWasError == sent # <<>> /\ sent[Len(sent)].type = "error"

\* get_scene, get_wind_field, get_all, ping, an unknown type, invalid JSON;
\* the request remembers whether the message before it was answered with an
\* error and whether the scene was sent on this connection
HandleQuery(t) ==
    /\ req' = [NoRequest EXCEPT !.type = t, !.afterError = LastWasError,
                                !.sceneSent = req.sceneSent
                                   \/ Reply(t) \in {"scene", "full_scene"}]
    /\ sent' = << Plain(Reply(t)) >>
    /\ pc' = AfterReply(Reply(t))
    /\ found' = NoneFound /\ routes' = <<>> /\ sim' = NoSim

\* such a message arrives while the handler waits for one
ReceiveQuery ==
    /\ conn = "open" /\ pc = "idle"
    /\ \E t \in QueryTypes : HandleQuery(t)
    /\ UNCHANGED <<sceneVars, fsim, probe, inbox, other, routeVars, conn>>

\* a start request: validated, then handed to run_simulation
HandleStart(start, end, rt) ==
    /\ \E si \in InsideOutcomes(start), ei \in InsideOutcomes(end) :
          LET r == [ type |-> "start", start |-> start, end |-> end,
                     routeType |-> rt, startInside |-> si, endInside |-> ei,
                     afterError |-> LastWasError, sceneSent |-> req.sceneSent ]
          IN  /\ req' = r
              /\ IF RequestAccepted(r)
                 THEN sent' = <<>> /\ pc' = "routing"
                 ELSE sent' = << Plain("error") >> /\ pc' = AfterReply("error")
    /\ found' = NoneFound /\ routes' = <<>> /\ sim' = NoSim

\* a start request arrives while the handler waits for a message
ReceiveStart ==
    /\ conn = "open" /\ pc = "idle"
    /\ \E start \in RequestStarts, end \in RequestEnds, rt \in RouteTypes :
          HandleStart(start, end, rt)
    /\ UNCHANGED <<sceneVars, fsim, probe, inbox, other, routeVars, conn>>

RouteReset ==
    /\ algo' = "none"
    /\ qStart' = <<0, 0, 0>>
    /\ qEnd' = <<0, 0, 0>>
    /\ rpc' = "idle"
    /\ rs' = NoSearch
    /\ res' = NoResult

\* run_simulation calls router r for route name
CallRouter(name, r) ==
    /\ pc = "routing"
    /\ Len(routes) < Len(NeededRoutes(req.routeType))
    /\ NeededRoutes(req.routeType)[Len(routes) + 1] = name
    /\ ~found[name].called
    /\ FindPathBegin(r, req.start, req.end)
    /\ found' = [found EXCEPT ![name].called = TRUE]

\* naive_result = self.naive_router.find_path(start_vec, end_vec)
CallNaive ==
    /\ req.routeType \in {"naive", "both"}
    /\ CallRouter("naive", "astar")
    /\ UNCHANGED <<sceneVars, fsim, probe, inbox, other, conn, pc, req, sent, routes, sim>>

\* wind_result = self.wind_router.find_path(start_vec, end_vec)
CallOptimized ==
    /\ req.routeType \in {"optimized", "both"}
    /\ CallRouter("optimized", "dijkstra")
    /\ UNCHANGED <<sceneVars, fsim, probe, inbox, other, conn, pc, req, sent, routes, sim>>

\* find_path has returned: smooth the path and keep the route, or send the
\* "No path found" error and return
TakeResult ==
    /\ pc = "routing" /\ rpc = "returned"
    /\ LET name == IF algo = "astar" THEN "naive" ELSE "optimized"
       IN  /\ found' = [found EXCEPT ![name] =
                          [ called |-> TRUE, success |-> res.success,
                            exhausted |-> rs.pq = {} /\ ~rs.found,
                            explored |-> res.nodesExplored ]]
           /\ IF RouteFailed(res)
              THEN /\ sent' = IF SendFails(conn) THEN sent
                               ELSE Append(sent, Plain("error"))
                   /\ pc' = IF SendFails(conn) THEN "closed" ELSE AfterReply("error")
                   /\ sim' = IF SendFails(conn) THEN SendRaised(sim, "error")
                              ELSE sim
                   /\ routes' = routes
              ELSE /\ \E w \in Smooth(res.path) :
                         routes' = Append(routes, [name |-> name, path |-> w])
                   /\ UNCHANGED <<sent, pc, sim>>
    /\ RouteReset
    /\ UNCHANGED <<sceneVars, fsim, probe, inbox, other, conn, req>>

\* every requested route has a path: send the paths message
SendPaths ==
    /\ pc = "routing" /\ rpc = "idle"
    /\ Len(routes) = Len(NeededRoutes(req.routeType))
    /\ sent' = IF SendFails(conn) THEN sent ELSE Append(sent, Plain("paths"))
    /\ pc' = IF SendFails(conn) THEN "closed" ELSE "starting"
    /\ sim' = IF SendFails(conn) THEN SendRaised(sim, "paths")
               ELSE [NoSim EXCEPT !.cur = 1]
    /\ UNCHANGED <<sceneVars, fsim, probe, inbox, other, routeVars, conn, req, found, routes>>

\* one pass of the loop that sends simulation_start for every route
SendSimulationStart ==
    /\ pc = "starting"
    /\ ~StartsSent(routes, sim.cur) /\ sim.cur <= Len(routes)
    /\ sent' = IF SendFails(conn) THEN sent
               ELSE Append(sent, RouteMsg("simulation_start", routes[sim.cur].name))
    /\ pc' = IF SendFails(conn) THEN "closed" ELSE pc
    /\ sim' = IF SendFails(conn) THEN SendRaised(sim, "simulation_start")
               ELSE [sim EXCEPT !.cur = sim.cur + 1]
    /\ UNCHANGED <<sceneVars, fsim, probe, inbox, other, routeVars, conn, req, found, routes>>

\* routes_to_run is empty: "for route_name, path in routes_to_run" has
\* nothing to simulate
NoRouteToRun ==
    /\ pc = "starting"
    /\ StartsSent(routes, sim.cur) /\ Len(routes) = 0
    /\ pc' = "ending"
    /\ sim' = [NoSim EXCEPT !.cur = 1]
    /\ UNCHANGED <<sceneVars, fsim, probe, inbox, other, routeVars, conn, req, sent, found, routes>>

\* stream_simulation up to its loop; a path of fewer than two waypoints is
\* not flown
BeginStream ==
    /\ pc = "starting"
    /\ StartsSent(routes, sim.cur) /\ Len(routes) = 1
    /\ LET name == routes[1].name
           path == routes[1].path
       IN  IF Len(path) < 2
           THEN /\ pc' = "ending"
                /\ sim' = [NoSim EXCEPT !.cur = 1, !.completed[name] = TRUE]
           ELSE /\ pc' = "stream"
                /\ sim' = [NoSim EXCEPT !.cur = 1,
                                        !.drone[name] = InitialDrone(path)]
    /\ UNCHANGED <<sceneVars, fsim, probe, inbox, other, routeVars, conn, req, sent, found, routes>>

\* one iteration of the loop of stream_simulation that sends a frame
StreamStep ==
    /\ pc = "stream"
    /\ sim.time < MaxTimeTicks
    /\ LET name == routes[1].name
           b == StreamBody(routes[1].path, sim.drone[name], windVel[1],
                           sim.time, TRUE)
       IN  /\ ~b.done
           /\ sent' = IF SendFails(conn) THEN sent
                      ELSE Append(sent, FrameMsg(name, b.frame))
           /\ pc' = IF SendFails(conn) THEN "closed" ELSE pc
           /\ sim' = IF SendFails(conn) THEN SendRaised(sim, "frame")
                      ELSE LoopAdvance([sim EXCEPT !.drone[name] = b.d])
    /\ UNCHANGED <<sceneVars, fsim, probe, inbox, other, routeVars, conn, req, found, routes>>

\* the loop of stream_simulation ends: the time is up or the drone ran out
\* of waypoints
StreamExit ==
    /\ pc = "stream"
    /\ LET name == routes[1].name
           b == StreamBody(routes[1].path, sim.drone[name], windVel[1],
                           sim.time, TRUE)
       IN  \/ /\ sim.time >= MaxTimeTicks
              /\ sim' = sim
           \/ /\ sim.time < MaxTimeTicks /\ b.done
              /\ sim' = [sim EXCEPT !.drone[name] = b.d,
                                    !.completed[name] = TRUE]
    /\ pc' = "ending"
    /\ UNCHANGED <<sceneVars, fsim, probe, inbox, other, routeVars, conn, req, sent, found, routes>>

\* stream_parallel_simulation up to its loop
BeginParallel ==
    /\ pc = "starting"
    /\ StartsSent(routes, sim.cur) /\ Len(routes) = 2
    /\ pc' = "parallel"
    /\ sim' = [NoSim EXCEPT
                 !.drone = [n \in {"naive", "optimized"} |->
                              LET path == routes[IF n = "naive" THEN 1 ELSE 2].path
                              IN  IF Len(path) < 2 THEN NoDrone
                                  ELSE InitialDrone(path)],
                 !.completed = [n \in {"naive", "optimized"} |->
                                  Len(routes[IF n = "naive" THEN 1 ELSE 2].path) < 2]]
    /\ UNCHANGED <<sceneVars, fsim, probe, inbox, other, routeVars, conn, req, sent, found, routes>>

\* the head of the parallel loop: go on while time is left and a drone flies
ParallelHead ==
    /\ pc = "parallel" /\ sim.cur = 0
    /\ IF sim.time < MaxTimeTicks
          /\ ~(sim.completed["naive"] /\ sim.completed["optimized"])
       THEN pc' = pc /\ sim' = [sim EXCEPT !.cur = 1]
       ELSE pc' = "ending" /\ sim' = [sim EXCEPT !.cur = 1]
    /\ UNCHANGED <<sceneVars, fsim, probe, inbox, other, routeVars, conn, req, sent, found, routes>>

\* one drone's turn in the for loop of a parallel step
ParallelDrone ==
    /\ pc = "parallel"
    /\ sim.cur >= 1 /\ ~DronesDone(sim.cur)
    /\ LET name == routes[sim.cur].name
           b == StreamBody(routes[sim.cur].path, sim.drone[name], windVel[1],
                           sim.time, FALSE)
       IN  IF sim.completed[name]
           THEN /\ sent' = sent /\ pc' = pc
                /\ sim' = [sim EXCEPT !.cur = sim.cur + 1]
           ELSE IF b.done
           THEN /\ sent' = sent /\ pc' = pc
                /\ sim' = [sim EXCEPT !.cur = sim.cur + 1,
                                      !.drone[name] = b.d,
                                      !.completed[name] = TRUE]
           ELSE IF SendFails(conn)
           THEN /\ sent' = sent /\ pc' = "closed"
                /\ sim' = SendRaised(sim, "frame")
           ELSE /\ sent' = Append(sent, FrameMsg(name, b.frame)) /\ pc' = pc
                /\ sim' = [sim EXCEPT !.cur = sim.cur + 1,
                                      !.drone[name] = b.d]
    /\ UNCHANGED <<sceneVars, fsim, probe, inbox, other, routeVars, conn, req, found, routes>>

\* the end of a parallel step: one sleep, one timestep for both drones
ParallelAdvance ==
    /\ pc = "parallel"
    /\ sim.cur >= 1 /\ DronesDone(sim.cur)
    /\ sim' = LoopAdvance([sim EXCEPT !.cur = 0])
    /\ UNCHANGED <<sceneVars, fsim, probe, inbox, other, routeVars, conn, pc, req, sent, found, routes>>

\* one pass of the loop that sends simulation_end for every route
SendSimulationEnd ==
    /\ pc = "ending"
    /\ sim.cur <= Len(routes)
    /\ sent' = IF SendFails(conn) THEN sent
               ELSE Append(sent, RouteMsg("simulation_end", routes[sim.cur].name))
    /\ pc' = IF SendFails(conn) THEN "closed" ELSE pc
    /\ sim' = IF SendFails(conn) THEN SendRaised(sim, "simulation_end")
               ELSE [sim EXCEPT !.cur = sim.cur + 1]
    /\ UNCHANGED <<sceneVars, fsim, probe, inbox, other, routeVars, conn, req, found, routes>>

\* a run_simulation that returns without a word once the routes are flown
NothingAtTheEnd == <<>>

\* 'await self.send_json(websocket, {"type": "complete", ...})'
CompleteAtTheEnd == << Plain("complete") >>

\* the complete message; run_simulation returns
SendComplete ==
    /\ pc = "ending"
    /\ sim.cur > Len(routes)
    /\ sent' = IF SendFails(conn) THEN sent ELSE sent \o CompleteAtTheEnd
    /\ pc' = IF SendFails(conn) THEN "closed" ELSE AfterReply("complete")
    /\ sim' = IF SendFails(conn) THEN SendRaised(sim, "complete") ELSE sim
    /\ UNCHANGED <<sceneVars, fsim, probe, inbox, other, routeVars, conn, req, found, routes>>

InitSession == SceneInit(ServerBoxes, {}) /\ windVel \in AxisWinds
               /\ RouteIdle /\ SessionIdle /\ SimulatorIdle
NextSession ==
    \/ ReceiveQuery \/ ReceiveStart
    \/ CallNaive \/ CallOptimized
    \/ DijkstraStep \/ AstarStep \/ FindPathReturn
    \/ TakeResult \/ SendPaths \/ SendSimulationStart \/ NoRouteToRun
    \/ BeginStream \/ StreamStep \/ StreamExit
    \/ BeginParallel \/ ParallelHead \/ ParallelDrone \/ ParallelAdvance
    \/ SendSimulationEnd \/ SendComplete
    \/ Disconnect
SpecSession == InitSession /\ [][NextSession]_vars

\* a step of the handler of the connection: everything but the arrival of a
\* message and the client closing the connection
HandlerStep ==
    \/ CallNaive \/ CallOptimized
    \/ DijkstraStep \/ AstarStep \/ FindPathReturn
    \/ TakeResult \/ SendPaths \/ SendSimulationStart \/ NoRouteToRun
    \/ BeginStream \/ StreamStep \/ StreamExit
    \/ BeginParallel \/ ParallelHead \/ ParallelDrone \/ ParallelAdvance
    \/ SendSimulationEnd \/ SendComplete

\* the handler is inside run_simulation: between two of its awaits, none of
\* which waits for the client (the routers are called synchronously, every
\* send and every asyncio.sleep completes or raises)
HandlerCanStep == pc \in { "routing", "starting", "stream", "parallel", "ending" }

\* the event loop resumes a handler whose await has completed: a handler
\* that can take a step eventually takes one. This is WF_vars(HandlerStep)
\* with ENABLED <<HandlerStep>>_vars written out as HandlerCanStep.
SpecSessionFair ==
    SpecSession /\ ([]<>(~HandlerCanStep) \/ []<><<HandlerStep>>_vars)

-----------------------------------------------------------------------------
(* The messages of one connection, received while the handler is busy *)

\* the most messages the connection holds unhandled
MaxInbox == 2

\* what the client sends: a ping, a get_scene, and start requests for two
\* routes, for one route and for a route_type the server does not know
ClientMessages ==
    { [ type |-> t, start |-> NoPosition, end |-> NoPosition,
        routeType |-> "both" ] : t \in { "ping", "get_scene" } }
    \cup { [ type |-> "start", start |-> <<1, 0, 4>>, end |-> <<19, 0, 2>>,
             routeType |-> rt ] : rt \in { "both", "naive", "fastest" } }

\* the client sends a message at any time; the websockets library keeps it
\* until "async for message in websocket" asks for the next one. busy tells
\* whether the handler was inside handle_message when the message arrived
ClientSend ==
    /\ conn = "open"
    /\ Len(inbox) < MaxInbox
    /\ \E m \in ClientMessages :
          inbox' = Append(inbox, [ msg |-> m, busy |-> pc # "idle" ])
    /\ UNCHANGED <<sceneVars, routeVars, fsim, probe, conn, pc, req, sent, found,
                   routes, sim, other>>

\* a handle_client that starts a task for every message as it arrives
MessageAnyTime(p) == TRUE

\* "async for message in websocket: ... await self.handle_message(websocket,
\* data)": the loop asks for the next message once handle_message has
\* returned
NextMessage(p) == p = "idle"

\* handle_client takes the oldest unhandled message
TakeMessage ==
    /\ conn = "open"
    /\ inbox # <<>>
    /\ NextMessage(pc)
    /\ LET m == Head(inbox).msg
       IN  IF m.type = "start"
           THEN HandleStart(m.start, m.end, m.routeType)
           ELSE HandleQuery(m.type)
    /\ inbox' = Tail(inbox)
    /\ UNCHANGED <<sceneVars, fsim, probe, other, routeVars, conn>>

InitQueue ==
    /\ InitSession
    /\ triangles = { CHOOSE b \in ServerBoxes : TRUE }
NextQueue == ClientSend \/ TakeMessage \/ HandlerStep \/ Disconnect
SpecQueue == InitQueue /\ [][NextQueue]_vars

-----------------------------------------------------------------------------
(* One call of FlightSimulator.simulate *)

\* the largest record_interval tried
MaxRecordInterval == 3

\* a variant that records every step
RecordedAlways(step, n) == TRUE

\* "if step % record_interval == 0"
Recorded(step, n) == step % n = 0

\* simulate(waypoints, record_interval) up to its loop
SimulateCall ==
    /\ pc = "off" /\ fsim.pc = "off"
    /\ \E path \in WaypointLists \cup { <<0>> }, n \in 1 .. MaxRecordInterval :
          fsim' = IF Len(path) < 2
                  THEN [NoFlight EXCEPT !.pc = "returned", !.path = path,
                                        !.interval = n]
                  ELSE [NoFlight EXCEPT !.pc = "loop", !.path = path,
                                        !.interval = n,
                                        !.d = InitialDrone(path)]
    /\ UNCHANGED <<sceneVars, routeVars, sessVars, probe>>

\* one iteration of the loop of simulate
SimulateStep ==
    /\ fsim.pc = "loop"
    /\ fsim.time < MaxTimeTicks
    /\ LET b == SimulateBody(fsim.path, fsim.d, windVel[1], fsim.time)
       IN  /\ ~b.done
           /\ fsim' = LoopAdvance(
                 [fsim EXCEPT !.d = b.d,
                              !.frames = IF Recorded(fsim.step, fsim.interval)
                                         THEN Append(fsim.frames, b.frame)
                                         ELSE fsim.frames])
    /\ UNCHANGED <<sceneVars, routeVars, sessVars, probe>>

\* the loop of simulate ends and the FlightData is returned
SimulateExit ==
    /\ fsim.pc = "loop"
    /\ LET b == SimulateBody(fsim.path, fsim.d, windVel[1], fsim.time)
       IN  \/ /\ fsim.time >= MaxTimeTicks
              /\ fsim' = [fsim EXCEPT !.pc = "returned"]
           \/ /\ fsim.time < MaxTimeTicks /\ b.done
              /\ fsim' = [fsim EXCEPT !.pc = "returned", !.d = b.d,
                                      !.completed = TRUE]
    /\ UNCHANGED <<sceneVars, routeVars, sessVars, probe>>

\* the flights of the server's sessions and of the simulator's callers
InitFlight == SceneInit(ServerBoxes, {}) /\ windVel \in AxisWinds
              /\ RouteIdle /\ (SessionIdle \/ SessionOff) /\ SimulatorIdle
NextFlight == NextSession \/ SimulateCall \/ SimulateStep \/ SimulateExit
SpecFlight == InitFlight /\ [][NextFlight]_vars

-----------------------------------------------------------------------------
(* stream_simulation and stream_parallel_simulation under every ServerConfig *)

\* the smoothed path of a route on a fine grid: more waypoints than
\* SkipLimit, one centimetre apart, all within waypoint_threshold of the first
DenseWaypoints == [ i \in 1 .. (SkipLimit + 3) |-> i - 1 ]

\* the waypoint lists of the routes that are streamed
StreamedLists == WaypointLists \cup { DenseWaypoints }

\* routes_to_run as run_simulation hands them to the streaming functions
StreamRoutes ==
    { << [name |-> n, path |-> w] >> :
         n \in {"naive", "optimized"}, w \in StreamedLists }
    \cup { << [name |-> "naive", path |-> w1], [name |-> "optimized", path |-> w2] >> :
             w1 \in StreamedLists, w2 \in StreamedLists }

\* run_simulation after its simulation_start messages, for a start request
\* whose routes were found
InitStream ==
    /\ boundsMax = SceneBoundsMax
    /\ config \in Configs
    /\ weights = SpeedPriority
    /\ nodePos = [id \in NodeIds |-> NodePosition(id)]
    /\ triangles = { CHOOSE b \in ServerBoxes : TRUE }
    /\ occupied = Voxelize(triangles)
    /\ valid = NodeIds
    /\ windVel \in AxisWinds
    /\ validEdges = PrecomputeValidEdges(triangles, occupied, valid)
    /\ edgeCosts = PrecomputeEdgeCosts(triangles, occupied, valid, windVel)
    /\ RouteIdle /\ SimulatorIdle
    /\ conn = "open"
    /\ pc = "starting"
    /\ routes \in StreamRoutes
    /\ req = [NoRequest EXCEPT !.type = "start", !.start = <<1, 0, 4>>,
                               !.end = <<19, 0, 2>>,
                               !.routeType = IF Len(routes) = 2 THEN "both"
                                             ELSE routes[1].name]
    /\ found = [ n \in {"naive", "optimized"} |->
                   IF \E i \in 1 .. Len(routes) : routes[i].name = n
                   THEN [NotCalled EXCEPT !.called = TRUE, !.success = TRUE,
                                          !.explored = 1]
                   ELSE NotCalled ]
    /\ sent = << Plain("paths") >>
                \o [ i \in 1 .. Len(routes) |->
                       RouteMsg("simulation_start", routes[i].name) ]
    /\ sim = [NoSim EXCEPT !.cur = Len(routes) + 1]
    /\ inbox = <<>>
    /\ other = NoSession
NextStream ==
    \/ BeginStream \/ StreamStep \/ StreamExit
    \/ BeginParallel \/ ParallelHead \/ ParallelDrone \/ ParallelAdvance
    \/ SendSimulationEnd \/ SendComplete
SpecStream == InitStream /\ [][NextStream]_vars

-----------------------------------------------------------------------------
(* Two connections whose simulations run at the same time *)

\* what belongs to one connection's handler
ThisSession ==
    [ conn |-> conn, pc |-> pc, req |-> req, sent |-> sent, found |-> found,
      routes |-> routes, sim |-> sim, inbox |-> inbox ]

\* run_simulation after its simulation_start messages, as in InitStream
StartingSession(rts) ==
    [ conn   |-> "open",
      pc     |-> "starting",
      req    |-> [NoRequest EXCEPT !.type = "start", !.start = <<1, 0, 4>>,
                                   !.end = <<19, 0, 2>>,
                                   !.routeType = IF Len(rts) = 2 THEN "both"
                                                 ELSE rts[1].name],
      sent   |-> << Plain("paths") >>
                 \o [ i \in 1 .. Len(rts) |->
                        RouteMsg("simulation_start", rts[i].name) ],
      found  |-> [ n \in {"naive", "optimized"} |->
                     IF \E i \in 1 .. Len(rts) : rts[i].name = n
                     THEN [NotCalled EXCEPT !.called = TRUE, !.success = TRUE,
                                            !.explored = 1]
                     ELSE NotCalled ],
      routes |-> rts,
      sim    |-> [NoSim EXCEPT !.cur = Len(rts) + 1],
      inbox  |-> <<>> ]

\* the waypoint lists of the two connections' routes
PairLists == { <<0, 200, 400, 600, 800>>, <<0, 300, 600, 0, -600>> }
PairRoutes ==
    { rts \in StreamRoutes : \A i \in 1 .. Len(rts) : rts[i].path \in PairLists }

\* a server that keeps state, time and step of the simulation on itself:
\* the handler that goes on finds what the handler before it left
ServerWideLocals(suspended, running) == running.sim

\* state, states, completed, time, step and frames are locals of
\* stream_simulation / stream_parallel_simulation: the handler that goes on
\* finds its own
CoroutineLocals(suspended, running) == suspended.sim

\* the event loop runs one handler at a time and changes over only where the
\* running one awaits: a send, asyncio.sleep or the next message, never
\* inside find_path
Switch ==
    /\ other # NoSession
    /\ pc # "routing"
    /\ conn' = other.conn
    /\ pc' = other.pc
    /\ req' = other.req
    /\ sent' = other.sent
    /\ found' = other.found
    /\ routes' = other.routes
    /\ sim' = CoroutineLocals(other, ThisSession)
    /\ inbox' = other.inbox
    /\ other' = ThisSession
    /\ UNCHANGED <<sceneVars, routeVars, fsim, probe>>

InitPair ==
    /\ boundsMax = SceneBoundsMax
    /\ config = DefaultConfig
    /\ weights = SpeedPriority
    /\ nodePos = [id \in NodeIds |-> NodePosition(id)]
    /\ triangles = { CHOOSE b \in ServerBoxes : TRUE }
    /\ occupied = Voxelize(triangles)
    /\ valid = NodeIds
    /\ windVel \in AxisWinds
    /\ validEdges = PrecomputeValidEdges(triangles, occupied, valid)
    /\ edgeCosts = PrecomputeEdgeCosts(triangles, occupied, valid, windVel)
    /\ RouteIdle /\ SimulatorIdle
    /\ \E r1 \in PairRoutes :
          LET s == StartingSession(r1)
          IN  /\ conn = s.conn /\ pc = s.pc /\ req = s.req /\ sent = s.sent
              /\ found = s.found /\ routes = s.routes /\ sim = s.sim
              /\ inbox = s.inbox
    /\ other \in { StartingSession(r2) : r2 \in PairRoutes }
NextPair == NextStream \/ Switch
SpecPair == InitPair /\ [][NextPair]_vars

RECURSIVE SoloFrames(_, _, _, _, _)
\* the frame messages of one route when its simulation runs alone: the loop
\* body from the initial DroneState on, until the drone is done or the time
\* is up
SoloFrames(name, path, d, time, single) ==
    IF time >= MaxTimeTicks THEN <<>>
    ELSE LET b == StreamBody(path, d, windVel[1], time, single)
         IN  IF b.done THEN <<>>
             ELSE << FrameMsg(name, b.frame) >>
                  \o SoloFrames(name, path, b.d, time + 1, single)

-----------------------------------------------------------------------------
(* Direct queries of Grid3D and VoxelGrid *)

\* the segments asked of the VoxelGrid
Segments ==
    { << <<0, 0, 0>>, <<16, 0, 0>> >>,   << <<8, 0, 0>>, <<12, 0, 0>> >>,
      << <<0, 0, 0>>, <<20, 0, 20>> >>,  << <<3, 2, 13>>, <<2, 0, 1>> >>,
      << <<0, 0, 10>>, <<0, 0, 0>> >>,   << <<2, 0, 1>>, <<2, 0, 1>> >>,
      << <<20, 0, 20>>, <<12, 0, 0>> >>, << <<5, 4, 5>>, <<5, 4, 5>> >>,
      << <<0, 0, 10>>, <<16, 0, 0>> >>,  << <<3, 2, 13>>, <<20, 0, 20>> >> }

\* positions asked of Grid3D.get_node_at_position
NodeQueryPositions ==
    { <<1, 0, 4>>, <<5, 0, 5>>, <<14, 0, 9>>, <<25, 3, -4>>, <<20, 0, 11>>,
      <<9, 0, 16>>, <<30, 0, 0>>, <<68, 0, 0>>, <<34, 2, 1>> }

\* the most nodes marked invalid (Grid3D.mark_invalid) before the queries
MaxMarked == 9

\* VoxelGrid.segment_intersects and segments_intersect_batch on one segment,
\* the first query after construction
SegmentQuery ==
    /\ pc = "off" /\ rpc = "idle" /\ probe = NoProbe
    /\ \E g \in Segments :
          probe' = [ kind |-> "segment", p0 |-> g[1], p1 |-> g[2],
                     scalar |-> SegmentIntersectsScalar(triangles, occupied, g[1], g[2]),
                     batch |-> SegmentIntersects(triangles, occupied, g[1], g[2]) ]
    /\ UNCHANGED <<sceneVars, routeVars, sessVars, fsim>>

\* Grid3D.get_node_at_position(position, prefer_valid=True), the first query
\* after the nodes were marked
NodeQuery ==
    /\ pc = "off" /\ rpc = "idle" /\ probe = NoProbe
    /\ \E pos \in NodeQueryPositions :
          probe' = [ kind |-> "node", pos |-> pos,
                     node |-> GetNodeAtPosition(valid, pos) ]
    /\ UNCHANGED <<sceneVars, routeVars, sessVars, fsim>>

\* a voxelized mesh and a grid on which any nodes were marked invalid
InitProbe ==
    /\ boundsMax \in {SceneBoundsMax, CorridorBoundsMax}
    /\ config = DefaultConfig
    /\ weights = SpeedPriority
    /\ nodePos = [id \in NodeIds |-> NodePosition(id)]
    /\ triangles \in { T \in SUBSET TriangleBoxes :
                         Cardinality(T) >= 1 /\ Cardinality(T) <= MaxTriangles }
    /\ occupied = Voxelize(triangles)
    /\ valid \in { NodeIds \ I : I \in { J \in SUBSET NodeIds :
                                           Cardinality(J) <= MaxMarked } }
    /\ windVel = <<0, 0, 0>>
    /\ validEdges = {}
    /\ edgeCosts = << >>
    /\ RouteIdle /\ SessionOff /\ SimulatorIdle
NextProbe == SegmentQuery \/ NodeQuery
SpecProbe == InitProbe /\ [][NextProbe]_vars

-----------------------------------------------------------------------------
(* CostCalculator: the cost of one edge under each weight preset *)

\* WeightConfig.speed_priority / safety_priority / balanced / distance_only,
\* in hundredths
WeightPresets ==
    { [distance |-> 30, headwind |-> 60, turbulence |-> 10],
      [distance |-> 20, headwind |-> 20, turbulence |-> 60],
      [distance |-> 34, headwind |-> 33, turbulence |-> 33],
      [distance |-> 100, headwind |-> 0, turbulence |-> 0] }

\* (max_turb - threshold) ** 2 along an edge, in quarters: turbulence of at
\* most the threshold 0.2, of 0.7 and of 1.2
ExcessSquared == {0, 1, 4}

\* a total that is stored as it was summed
KeepCost(total) == total

\* "Ensure non-negative": max(0.0, total) / np.maximum(0.0, total_costs)
ClampCost(total) == Max2(0, total)

\* a headwind cost that charges a tailwind as much as a headwind
HeadwindCostEitherWay(wind, u, v) ==
    2 * Abs(VDot(wind, VSub(NodePosition(v), NodePosition(u)))) * DistScale

\* HeadwindCost.compute times 2 * DistScale: wind_alignment * distance is the
\* dot product wind . (end - start); a tailwind counts at tailwind_benefit 1/2
HeadwindCost(wind, u, v) ==
    LET wd == VDot(wind, VSub(NodePosition(v), NodePosition(u)))
    IN  IF wd < 0 THEN -2 * wd * DistScale ELSE -wd * DistScale

\* CostCalculator.compute_edge_cost, in units of 1 / (800 * DistScale): the
\* components with a non-zero weight are summed, then the total is clamped
EdgeCostScalar(w, wind, ex2, u, v) ==
    LET dist == Magnitude(VSub(NodePosition(v), NodePosition(u)))
        cD == IF w.distance = 0 THEN 0 ELSE 8 * w.distance * dist
        cH == IF w.headwind = 0 THEN 0 ELSE 4 * w.headwind * HeadwindCost(wind, u, v)
        cT == IF w.turbulence = 0 THEN 0 ELSE 2 * w.turbulence * ex2 * dist
    IN  ClampCost(cD + cH + cT)

\* a cost that is the length of the edge whatever the weights are
EdgeCostUnweighted(w, wind, ex2, u, v) ==
    800 * Magnitude(VSub(NodePosition(v), NodePosition(u)))

\* the cost of one edge in precompute_edge_costs_vectorized, same units
EdgeCostVectorized(w, wind, ex2, u, v) ==
    LET dist == Magnitude(VSub(NodePosition(v), NodePosition(u)))
        cD == IF w.distance > 0 THEN 8 * w.distance * dist ELSE 0
        cH == IF w.headwind > 0 THEN 4 * w.headwind * HeadwindCost(wind, u, v) ELSE 0
        cT == IF w.turbulence > 0 THEN 2 * w.turbulence * ex2 * dist ELSE 0
    IN  ClampCost(cD + cH + cT)

\* the sum of the weighted components of an edge before the clamp
WeightedSum(w, wind, ex2, u, v) ==
    LET dist == Magnitude(VSub(NodePosition(v), NodePosition(u)))
    IN  8 * w.distance * dist + 4 * w.headwind * HeadwindCost(wind, u, v)
          + 2 * w.turbulence * ex2 * dist

\* one edge of the table computed by both precomputations
CostQuery ==
    /\ pc = "off" /\ rpc = "idle" /\ probe = NoProbe
    /\ \E w \in WeightPresets, ex2 \in ExcessSquared, e \in validEdges :
          probe' = [ kind |-> "cost", weights |-> w, excess2 |-> ex2,
                     u |-> e[1], v |-> e[2],
                     scalar |-> EdgeCostScalar(w, windVel, ex2, e[1], e[2]),
                     vectorized |-> EdgeCostVectorized(w, windVel, ex2, e[1], e[2]) ]
    /\ UNCHANGED <<sceneVars, routeVars, sessVars, fsim>>

InitCost ==
    /\ SceneInit(ServerBoxes, {})
    /\ RouteIdle /\ SessionOff /\ SimulatorIdle
NextCost == CostQuery
SpecCost == InitCost /\ [][NextCost]_vars

-----------------------------------------------------------------------------
(* Two find_path calls on routers built with any weight preset *)

\* the scenes of a caller of the routing library: no mesh at all (the edge
\* precomputations are given no collision checker) or a mesh of one box
CompareMeshes == { {} } \cup { {b} : b \in TriangleBoxes }

\* precompute_valid_edges / the edge list of precompute_edge_costs_vectorized:
\* without a collision checker every potential edge is kept
CheckedEdges(tris, occ, validSet) ==
    IF tris = {} THEN PotentialEdges(validSet)
    ELSE PrecomputeValidEdges(tris, occ, validSet)

\* precompute_edge_costs_vectorized under the weights w, in units of
\* 1 / (800 * DistScale); the uniform field carries no turbulence
PrecomputeWeightedCosts(tris, occ, validSet, wind, w) ==
    [ e \in CheckedEdges(tris, occ, validSet) |->
        EdgeCostVectorized(w, wind, 0, e[1], e[2]) ]

\* the first call has returned: its PathResult is kept and a second call is
\* made, of the other router for the same query or of the same router for
\* the reversed query
CompareCall ==
    /\ pc = "off" /\ rpc = "returned" /\ probe = NoProbe
    /\ probe' = [ kind |-> "result", algo |-> algo, start |-> qStart,
                  end |-> qEnd, result |-> res ]
    /\ \/ FindPathEnter(IF algo = "astar" THEN "dijkstra" ELSE "astar", qStart, qEnd)
       \/ FindPathEnter(algo, qEnd, qStart)
    /\ UNCHANGED <<sceneVars, sessVars, fsim>>

InitCompare ==
    /\ boundsMax = SceneBoundsMax
    /\ config = DefaultConfig
    /\ weights \in { SpeedPriority, Balanced, DistanceOnly }
    /\ nodePos = [id \in NodeIds |-> NodePosition(id)]
    /\ triangles \in CompareMeshes
    /\ occupied = Voxelize(triangles)
    /\ valid = NodeIds
    /\ windVel \in { <<0, 0, 0>>, <<10, 0, 0>> }
    /\ validEdges = CheckedEdges(triangles, occupied, valid)
    /\ edgeCosts = PrecomputeWeightedCosts(triangles, occupied, valid, windVel, weights)
    /\ RouteIdle /\ SessionOff /\ SimulatorIdle
NextCompare == NextRoute \/ CompareCall
SpecCompare == InitCompare /\ [][NextCompare]_vars

-----------------------------------------------------------------------------
(* The effort of a frame *)

\* unit headings and desired directions, as integer vectors of length
\* HeadingScale
HeadingScale == 5
Headings == { <<5, 0, 0>>, <<-5, 0, 0>>, <<3, 0, 4>>, <<0, 0, -5>>, <<-4, 3, 0>> }

\* correction.magnitude(), the sine of the crab angle, in hundredths: none,
\* 0.3, the streaming limit sin(30 deg) and the limit of simulate sin(70 deg)
CorrectionMagnitudes == { 0, 30, 50, 94 }

\* the winds a frame may meet: those of the scenes and a storm
EffortWinds == WindVels \cup { <<-60, 0, 0>> }

\* the sum of the effort terms, kept as it is
KeepEffort(total, one) == total

\* "effort = min(1.0, ...)"
ClampEffort(total, one) == Min2(one, total)

\* state.airspeed of the streaming loops in fifths of m/s, for a wind and a
\* desired direction
BoostedAirspeed(wind, desired) ==
    Max2(HeadingScale * BaseAirspeed,
         Min2(HeadingScale * MaxBoostAirspeed,
              -VDot(wind, desired) + HeadingScale * MinDesiredGroundspeed))

\* 1.0 in the units of StreamEffort: 1 / (5000 * base * |max_boost - base|)
StreamEffortOne == 1000 * HeadingScale * BaseAirspeed * Abs(MaxBoostAirspeed - BaseAirspeed)

\* the sum 0.1 + headwind_effort + correction_effort + boost_effort of the
\* streaming loops, in the same units; a quotient with a negative divisor is
\* negative or -0.0 and max(0.0, boost_ratio) makes it 0.0
StreamEffortSum(wind, heading, corr, airspeed) ==
    LET d == MaxBoostAirspeed - BaseAirspeed
        headwind == Max2(0, -VDot(wind, heading))
        over == airspeed - HeadingScale * BaseAirspeed
        boost == IF d > 0 THEN Max2(0, over) ELSE 0
    IN  100 * HeadingScale * BaseAirspeed * Abs(d)
          + 300 * headwind * Abs(d)
          + 2 * HeadingScale * Min2(100, corr) * BaseAirspeed * Abs(d)
          + 400 * boost * BaseAirspeed

\* the effort of a frame of stream_simulation / stream_parallel_simulation
StreamEffort(wind, heading, corr, airspeed) ==
    ClampEffort(StreamEffortSum(wind, heading, corr, airspeed), StreamEffortOne)

\* 1.0 in the units of SimulateEffort: 1 / (5000 * max_airspeed)
SimulateEffortOne == 1000 * HeadingScale * BaseAirspeed

\* FlightSimulator._compute_effort: base_effort 0.1, headwind up to 0.5 per
\* max_airspeed of headwind, correction up to 0.3, clamped to 0 .. 1
SimulateEffort(wind, heading, corr) ==
    LET headwind == Max2(0, -VDot(wind, heading))
        total == 100 * HeadingScale * BaseAirspeed
                   + 500 * headwind
                   + 3 * HeadingScale * Min2(100, corr) * BaseAirspeed
    IN  Min2(SimulateEffortOne, Max2(0, total))

\* the effort of one frame, flown with some heading toward some desired
\* direction with some crab correction
EffortQuery ==
    /\ pc = "off" /\ rpc = "idle" /\ probe = NoProbe
    /\ \E h \in Headings, desired \in Headings, corr \in CorrectionMagnitudes :
          LET a == BoostedAirspeed(windVel, desired)
          IN  probe' = [ kind |-> "effort", heading |-> h, correction |-> corr,
                         airspeed |-> a,
                         stream |-> StreamEffort(windVel, h, corr, a),
                         simulate |-> SimulateEffort(windVel, h, corr) ]
    /\ UNCHANGED <<sceneVars, routeVars, sessVars, fsim>>

InitEffort ==
    /\ boundsMax = SceneBoundsMax
    /\ config \in { c \in Configs : c.cmPerStep = TimestepCm }
    /\ weights = SpeedPriority
    /\ nodePos = [id \in NodeIds |-> NodePosition(id)]
    /\ triangles = { CHOOSE b \in ServerBoxes : TRUE }
    /\ occupied = Voxelize(triangles)
    /\ valid = NodeIds
    /\ windVel \in EffortWinds
    /\ validEdges = PrecomputeValidEdges(triangles, occupied, valid)
    /\ edgeCosts = PrecomputeEdgeCosts(triangles, occupied, valid, windVel)
    /\ RouteIdle /\ SessionOff /\ SimulatorIdle
NextEffort == EffortQuery
SpecEffort == InitEffort /\ [][NextEffort]_vars

\* C21: in every frame 0 <= effort <= 1, for every wind, heading, crab
\* correction and airspeed boost, in the streaming loops and in simulate
C21_EffortInUnitRange ==
    probe.kind = "effort" =>
       /\ 0 <= probe.stream /\ probe.stream <= StreamEffortOne
       /\ 0 <= probe.simulate /\ probe.simulate <= SimulateEffortOne

\* a frame flown into a storm with a boosted airspeed and the largest crab
\* correction: the terms add up to more than 1 and the effort is 1
C21_Witness ==
    /\ probe.kind = "effort"
    /\ probe.airspeed > HeadingScale * BaseAirspeed
    /\ probe.correction > 0
    /\ StreamEffortSum(windVel, probe.heading, probe.correction, probe.airspeed)
          > StreamEffortOne
    /\ probe.stream = StreamEffortOne

\* how finely a segment is followed to see which voxels it passes through
FineSteps == 16

\* some point of the segment, FineSteps-ths of the way along, lies in an
\* occupied voxel
PassesThroughOccupied(p0, p1) ==
    \E i \in 0 .. FineSteps :
       FractionOccupied(triangles, occupied, SampleAt(p0, p1, i, FineSteps), FineSteps)

\* C11: a segment that passes through an occupied voxel is reported as
\* intersecting by segment_intersects and by segments_intersect_batch
C11_NoFalseNegatives ==
    (probe.kind = "segment" /\ PassesThroughOccupied(probe.p0, probe.p1)) =>
       probe.scalar /\ probe.batch

\* what get_node_at_position is to return for position pos on the grid whose
\* valid nodes are validSet, stated from shells without following the scan
ClampedNode(pos) ==
    LET c == ClampedIndex(pos) IN IndexToId(c[1], c[2], c[3])
ValidAtRadius(pos, k) == { v \in valid : Chebyshev(v, ClampedNode(pos)) = k }
DistanceSquaredTo(v, pos) == MagnitudeSquared(VSub(NodePosition(v), pos))

\* C12: get_node_at_position returns the clamped nearest-index node when it
\* is valid; otherwise the valid node nearest to p in the smallest Chebyshev
\* shell r in 1..5 that holds a valid node; otherwise, with no valid node
\* within Chebyshev distance 5, the invalid clamped node; and the result is
\* never more than Chebyshev distance 5 from the clamped index
C12_NearestValidNode ==
    probe.kind = "node" =>
       LET p == probe.pos
           n0 == ClampedNode(p)
           shells == { k \in 1 .. SearchRadius : ValidAtRadius(p, k) # {} }
       IN  /\ Chebyshev(probe.node, n0) <= SearchRadius
           /\ n0 \in valid => probe.node = n0
           /\ (n0 \notin valid /\ shells = {}) => probe.node = n0
           /\ (n0 \notin valid /\ shells # {}) =>
                 \E k \in shells :
                    /\ \A j \in shells : k <= j
                    /\ probe.node \in ValidAtRadius(p, k)
                    /\ \A w \in ValidAtRadius(p, k) :
                          DistanceSquaredTo(probe.node, p) <= DistanceSquaredTo(w, p)

\* a query whose clamped node is invalid, answered by a node of the outermost
\* shell searched
C12_Witness ==
    /\ probe.kind = "node"
    /\ ClampedNode(probe.pos) \notin valid
    /\ Chebyshev(probe.node, ClampedNode(probe.pos)) = SearchRadius
    /\ Cardinality(valid) >= 2

\* C14: every cost stored in the edge cost table is >= 0, under every weight
\* preset and wind, from the scalar and from the vectorized precomputation
C14_CostsNonNegative ==
    /\ \A e \in DOMAIN edgeCosts : edgeCosts[e] >= 0
    /\ probe.kind = "cost" => probe.scalar >= 0 /\ probe.vectorized >= 0

\* an edge flown with a tailwind strong enough to make the weighted sum
\* negative, stored with cost 0 by both precomputations
C14_Witness ==
    /\ probe.kind = "cost"
    /\ WeightedSum(probe.weights, windVel, probe.excess2, probe.u, probe.v) < 0
    /\ probe.scalar = 0 /\ probe.vectorized = 0
    /\ edgeCosts[<<probe.u, probe.v>>] = 0

-----------------------------------------------------------------------------
(* Properties of a session *)

Sent(i, type) == sent[i].type = type
SentFor(i, type, route) == sent[i].type = type /\ sent[i].route = route
Count(type) == Cardinality({ i \in 1 .. Len(sent) : Sent(i, type) })
CountFor(type, route) ==
    Cardinality({ i \in 1 .. Len(sent) : SentFor(i, type, route) })
RouteNames == { "naive", "optimized" }
Requested == { NeededRoutes(req.routeType)[k] :
                 k \in 1 .. Len(NeededRoutes(req.routeType)) }

\* the request being handled passed validation and every route it asks for
\* has a path
EveryRouteHasPath ==
    /\ req.type = "start" /\ RequestAccepted(req)
    /\ \A n \in Requested : found[n].called /\ found[n].success

\* C1: in answer to a start request, paths comes before every frame, a
\* route's simulation_start before its first frame, every frame of a route
\* before that route's simulation_end, and complete after every
\* simulation_end; once the handler of a validated request whose routes all
\* have a path has returned, exactly one paths and one complete were sent,
\* and one simulation_start and simulation_end per requested route
C1_MessageOrder ==
    pc # "off" =>
      /\ Count("paths") <= 1 /\ Count("complete") <= 1
      /\ \A j \in 1 .. Len(sent) :
            Sent(j, "frame") =>
               /\ \E i \in 1 .. j - 1 : Sent(i, "paths")
               /\ \E i \in 1 .. j - 1 :
                     SentFor(i, "simulation_start", sent[j].route)
               /\ \A i \in 1 .. j - 1 :
                     ~SentFor(i, "simulation_end", sent[j].route)
      /\ \A c \in 1 .. Len(sent) :
            Sent(c, "complete") =>
               /\ c = Len(sent)
               /\ \A n \in Requested : CountFor("simulation_end", n) = 1
      /\ (pc = "idle" /\ EveryRouteHasPath) =>
            /\ Count("paths") = 1 /\ Count("complete") = 1
            /\ \A n \in Requested :
                  /\ CountFor("simulation_start", n) = 1
                  /\ CountFor("simulation_end", n) = 1
            /\ \A n \in RouteNames \ Requested :
                  \A i \in 1 .. Len(sent) : sent[i].route # n

\* a both-route request answered in full, with frames of both routes
C1_Witness ==
    /\ pc = "idle" /\ EveryRouteHasPath /\ req.routeType = "both"
    /\ Count("complete") = 1
    /\ \A n \in RouteNames : CountFor("frame", n) >= 2

FrameTimes(n) == { sent[i].time : i \in { j \in 1 .. Len(sent) : SentFor(j, "frame", n) } }

\* C2: when both routes are flown, the frames go out in step order (no frame
\* of a step is sent after a frame of a later step), and a drone that is
\* still flying has sent its frame of every step up to the current one
C2_ParallelLockstep ==
    req.routeType = "both" /\ pc # "off" =>
      /\ \A i, j \in 1 .. Len(sent) :
            (Sent(i, "frame") /\ Sent(j, "frame") /\ i < j) =>
               sent[i].time <= sent[j].time
      /\ pc = "parallel" =>
            \A k \in 1 .. 2 :
               ~sim.completed[routes[k].name] =>
                  FrameTimes(routes[k].name) =
                     0 .. (IF sim.cur > k THEN sim.time ELSE sim.time - 1)

\* both drones have sent their frame of the third step
C2_Witness ==
    /\ req.routeType = "both" /\ pc = "parallel"
    /\ \A n \in RouteNames : 2 \in FrameTimes(n)

PositionRejected(p, inside) ==
    p # NoPosition /\ (~InBounds(p) \/ PointOccupied(triangles, occupied, p) \/ inside)

\* C7: a start request whose start or end lies outside the bounds, in an
\* occupied voxel or inside the mesh is answered by exactly one error and
\* nothing else, and no router is asked for a path
C7_InvalidPositionRejected ==
    ( /\ req.type = "start"
      /\ \/ PositionRejected(req.start, req.startInside)
         \/ PositionRejected(req.end, req.endInside) ) =>
       /\ sent = << Plain("error") >>
       /\ pc \in {"idle", "closed"}
       /\ rpc = "idle"
       /\ \A n \in RouteNames : ~found[n].called

\* a request rejected because its start lies in an occupied voxel
C7_Witness ==
    /\ req.type = "start" /\ sent = << Plain("error") >>
    /\ req.start # NoPosition /\ req.end # NoPosition
    /\ InBounds(req.start) /\ ~req.startInside
    /\ PointOccupied(triangles, occupied, req.start)

\* C8: a search whose queue empties before the end node is popped returns
\* success = false with nodes_explored > 0; the session then sends the error
\* (unless the client has gone and its send raised) and neither paths nor a
\* frame, and asks no further router
C8_NoPathNoFrames ==
    pc # "off" =>
      /\ (rpc = "returned" /\ rs.pq = {} /\ ~rs.found) =>
            ~res.success /\ res.nodesExplored > 0
      /\ \A n \in RouteNames :
            found[n].exhausted =>
               /\ ~found[n].success /\ found[n].explored > 0
               /\ sent = IF sim.failed = "error" THEN <<>> ELSE << Plain("error") >>
               /\ pc \in {"idle", "closed"}
               /\ n = "naive" => ~found["optimized"].called

\* the naive route of a both-route request has no path
C8_Witness ==
    /\ req.routeType = "both" /\ pc = "idle"
    /\ found["naive"].exhausted

\* an upper bound on the loop-body passes the streaming loop may still make
LoopVariant ==
    CASE pc = "stream" -> MaxTimeTicks - sim.time
      [] pc = "parallel" -> 4 * (MaxTimeTicks - sim.time) + 3 - sim.cur
      [] OTHER -> 0

\* C9: the streaming loops terminate: a pass of the single-route loop that
\* does not leave the loop advances time by one timestep, a parallel step
\* visits the two drones and then advances time by one timestep, and each
\* such step lowers a bound that never goes below zero; a route sends at
\* most max_time / timestep frames; a loop that has ended either ran out of
\* waypoints (REACHED) or out of time (TIMEOUT); the client closing the
\* connection is not a pass of a loop
C9_SimulationTerminates ==
    /\ [](pc # "off" =>
            /\ LoopVariant >= 0
            /\ sim.time <= MaxTimeTicks
            /\ \A n \in RouteNames : CountFor("frame", n) <= MaxTimeTicks
            /\ pc = "ending" =>
                  \/ sim.time >= MaxTimeTicks
                  \/ \A n \in Requested : sim.completed[n])
    /\ [][ conn' = conn =>
           /\ (pc = "stream" /\ pc' = "stream") => sim'.time = sim.time + 1
           /\ (pc = "parallel" /\ pc' = "parallel") =>
                 \/ sim'.time = sim.time /\ sim'.cur = sim.cur + 1
                 \/ sim'.time = sim.time + 1 /\ sim.cur = 3 /\ sim'.cur = 0
           /\ (pc \in {"stream", "parallel"} /\ pc' = pc) =>
                 LoopVariant' < LoopVariant ]_vars

\* a single-route flight that ran out of time after sending the most frames
\* it can
C9_Witness ==
    /\ pc = "ending" /\ Len(routes) = 1
    /\ sim.time >= MaxTimeTicks /\ ~sim.completed[routes[1].name]
    /\ CountFor("frame", routes[1].name) = MaxTimeTicks

\* the times of the frames of route n, in the order they were sent
FrameTimeSeq(n) ==
    LET F == { i \in 1 .. Len(sent) : SentFor(i, "frame", n) }
        Nth(k) == CHOOSE i \in F : Cardinality({ j \in F : j < i }) = k - 1
    IN  [ k \in 1 .. Cardinality(F) |-> sent[Nth(k)].time ]

\* consecutive frames of every streamed route are one timestep apart
StreamedOneApart ==
    \A n \in RouteNames :
       \A k \in 1 .. Len(FrameTimeSeq(n)) - 1 :
          FrameTimeSeq(n)[k] + 1 = FrameTimeSeq(n)[k + 1]

\* C10 as stated: consecutive frames are exactly one timestep apart in the
\* streaming loops and in the frames simulate records, for every
\* record_interval >= 1
C10_FramesOneTimestepApart ==
    /\ StreamedOneApart
    /\ \A k \in 1 .. Len(fsim.frames) - 1 :
          fsim.frames[k].time + 1 = fsim.frames[k + 1].time

\* C10, amended: consecutive streamed frames are exactly one timestep apart;
\* the frames simulate records are record_interval timesteps apart, the
\* first at time 0
C10_FramesRecordIntervalApart ==
    /\ StreamedOneApart
    /\ \A k \in 1 .. Len(fsim.frames) :
          fsim.frames[k].time = (k - 1) * fsim.interval

\* simulate has recorded three frames with a record_interval of two steps
C10_Witness ==
    /\ fsim.interval = 2 /\ Len(fsim.frames) = 3
    /\ fsim.frames[3].time = 4

\* C16: after an error reply the connection stays open and the handler waits
\* for the next message, which it can receive; a message that follows an
\* error is handled as any other: a query gets its reply, a start request
\* that is not accepted gets an error, an accepted one is routed, and a
\* simulation that has ended has sent complete
C16_SessionContinuesAfterError ==
    /\ (conn = "open" /\ LastWasError) =>
          /\ pc = "idle"
          /\ ENABLED ReceiveQuery
          /\ ENABLED ReceiveStart
    /\ (req.afterError /\ conn = "open") =>
          /\ req.type \in QueryTypes => sent = << Plain(Reply(req.type)) >> /\ pc = "idle"
          /\ (req.type = "start" /\ ~RequestAccepted(req)) =>
                sent = << Plain("error") >> /\ pc = "idle"
          /\ (req.type = "start" /\ RequestAccepted(req)) =>
                /\ pc # "closed"
                /\ pc = "idle" => (LastWasError \/ sent[Len(sent)].type = "complete")
                /\ pc \notin {"idle", "routing"} => Count("paths") = 1

\* a start request that follows an error reply on the same connection and
\* was simulated to the end
C16_Witness ==
    /\ req.afterError /\ req.type = "start" /\ conn = "open" /\ pc = "idle"
    /\ Count("frame") > 0
    /\ sent[Len(sent)].type = "complete"

\* C17: on every connection, scene info was sent before the paths message
\* of a start request
C17_SceneBeforePaths ==
    (\E i \in 1 .. Len(sent) : sent[i].type = "paths") => req.sceneSent

\* C15: once a frame could not be sent because the client has gone, the
\* handler has ended: no further step is computed and nothing more is
\* produced, in particular no simulation_end and no complete; and from the
\* disconnect on nothing is delivered and no drone is moved
C15_CancelledAtFailedSend ==
    /\ [](sim.failed # "none" => pc = "closed")
    /\ [][sim.failed = "frame" => (sim' = sim /\ sent' = sent /\ pc' = pc)]_vars
    /\ [][conn = "closed" => sent' = sent]_vars
    /\ [][(conn = "closed" /\ pc \in {"stream", "parallel"}) =>
            \A n \in {"naive", "optimized"} : sim'.drone[n].pos = sim.drone[n].pos]_vars

\* the client went away after some frames were streamed and the send of the
\* next frame raised
C15_Witness ==
    /\ sim.failed = "frame"
    /\ conn = "closed" /\ pc = "closed"
    /\ \E i \in 1 .. Len(sent) : sent[i].type = "frame"
    /\ \A i \in 1 .. Len(sent) : sent[i].type \notin {"simulation_end", "complete"}

\* the frames of route n in the order they were sent
FrameSeq(n) == SelectSeq(sent, LAMBDA m : m.type = "frame" /\ m.route = n)

\* the path of route n
PathOf(n) == (CHOOSE i \in 1 .. Len(routes) : routes[i].name = n)

C19_HeadingNearDesired ==
    \A i \in 1 .. Len(sent) :
       sent[i].type = "frame" =>
          LET path == routes[PathOf(sent[i].route)].path
              desired == Sign(path[sent[i].wp + 1] - sent[i].pos)
          IN  desired # 0 => sent[i].heading = desired

\* the terminal messages among those sent in answer to the request
Terminals == { i \in 1 .. Len(sent) : sent[i].type \in {"error", "complete"} }

\* C29: if the client stays connected, every start request is eventually
\* answered by exactly one terminal message, error or complete: never two
\* terminal messages, nothing after the terminal message, exactly one once
\* the handler is back waiting for a message, and the handler of a start
\* request does get back there unless the client closes the connection
C29_OneTerminalMessage ==
    /\ [](req.type = "start" =>
            /\ Cardinality(Terminals) <= 1
            /\ Terminals \subseteq {Len(sent)}
            /\ pc = "idle" => Cardinality(Terminals) = 1)
    /\ (req.type = "start" /\ pc # "idle") ~> (pc = "idle" \/ conn = "closed")

\* a start request with a route_type the server does not know, answered by
\* an empty paths message and complete
C29_Witness ==
    /\ req.type = "start" /\ req.routeType = "fastest"
    /\ pc = "idle" /\ conn = "open"
    /\ sent = << Plain("paths"), Plain("complete") >>

\* the message types run_simulation sends
RunSimulationTypes ==
    { "paths", "simulation_start", "frame", "simulation_end", "complete", "error" }

\* C28: the messages of one connection are handled one at a time: a message
\* is taken up only while the handler waits for one, after the request
\* before it got its whole answer (a start request its terminal message, as
\* the last message); and while run_simulation is under way nothing is sent
\* but its own messages, so no pong, scene or frame of another request comes
\* between them
C28_OneAtATime ==
    /\ [][Len(inbox') < Len(inbox) =>
            /\ pc = "idle"
            /\ req.type = "start" => Terminals = { Len(sent) }
            /\ req.type \notin { "start", "none" } => Len(sent) = 1]_vars
    /\ [](HandlerCanStep =>
            \A i \in 1 .. Len(sent) : sent[i].type \in RunSimulationTypes)
    /\ [][HandlerCanStep /\ HandlerCanStep' =>
            \E k \in 0 .. 1 : /\ Len(sent') = Len(sent) + k
                               /\ SubSeq(sent', 1, Len(sent)) = sent]_vars

\* a ping that arrived while the handler was busy is still unanswered when
\* the start request has got its frames and its complete
C28_Witness ==
    /\ conn = "open" /\ pc = "idle"
    /\ req.type = "start"
    /\ Count("frame") >= 2
    /\ sent[Len(sent)].type = "complete"
    /\ inbox # <<>>
    /\ Head(inbox).busy /\ Head(inbox).msg.type = "ping"

\* the frames of route name among the messages sent to session s
FramesOf(s, name) ==
    SelectSeq(s.sent, LAMBDA m : m.type = "frame" /\ m.route = name)

\* session s has received, for each of its routes, a prefix of the frames it
\* gets when it runs alone, and all of them once its request is answered
AsIfAlone(s) ==
    \A i \in 1 .. Len(s.routes) :
       LET r    == s.routes[i]
           solo == IF Len(r.path) < 2 THEN <<>>
                   ELSE SoloFrames(r.name, r.path, InitialDrone(r.path), 0,
                                   Len(s.routes) = 1)
           got  == FramesOf(s, r.name)
       IN  /\ Len(got) <= Len(solo)
           /\ SubSeq(solo, 1, Len(got)) = got
           /\ s.pc = "idle" => got = solo

\* C24: two sessions whose simulations run at the same time on one server do
\* not influence each other: each client receives the frames it would
\* receive if its session ran alone
C24_SessionsIndependent ==
    other # NoSession => AsIfAlone(ThisSession) /\ AsIfAlone(other)

\* both simulations are under way, on different routes, and each client has
\* received frames
C24_Witness ==
    /\ other # NoSession
    /\ routes # other.routes
    /\ pc \in { "stream", "parallel" } /\ other.pc \in { "stream", "parallel" }
    /\ \E n \in RouteNames : Len(FramesOf(ThisSession, n)) >= 2
    /\ \E n \in RouteNames : Len(FramesOf(other, n)) >= 2

\* C26: within one simulation step the target index of a drone advances past
\* at most 100 waypoints, in single-route and in both-route streaming
C26_SkipsBounded ==
    [][(pc = "stream" \/ pc = "parallel") =>
          (\A n \in RouteNames :
              sim'.drone[n].idx - sim.drone[n].idx <= SkipLimit)]_vars

\* C20: in every frame base_airspeed <= airspeed <= max_boost_airspeed
C20_AirspeedInRange ==
    \A i \in 1 .. Len(sent) :
       sent[i].type = "frame" =>
          BaseAirspeed <= sent[i].airspeed /\ sent[i].airspeed <= MaxBoostAirspeed

-----------------------------------------------------------------------------
(* Properties of the routers *)

\* C13: after precomputation, (u, v) is a valid edge iff (v, u) is, and
\* (u, v) is a key of the edge cost table iff (v, u) is; the sequential
\* collision check of the fallback gives one answer for both directions too
\* (compared once per scene, while no query is running)
C13_EdgeGatingSymmetric ==
    \A u \in NodeIds : \A v \in NodeIds :
       /\ <<u, v>> \in validEdges <=> <<v, u>> \in validEdges
       /\ <<u, v>> \in DOMAIN edgeCosts <=> <<v, u>> \in DOMAIN edgeCosts
       /\ (rpc = "idle" /\ <<u, v>> \in PotentialEdges(valid)) =>
             (SegmentIntersectsScalar(triangles, occupied, NodePosition(u), NodePosition(v))
                <=> SegmentIntersectsScalar(triangles, occupied, NodePosition(v), NodePosition(u)))

\* the collision check removed some edge between valid neighbours and kept
\* another, in both tables
C13_Witness ==
    /\ \E e \in PotentialEdges(valid) : e \notin validEdges /\ e \notin DOMAIN edgeCosts
    /\ validEdges # {}
    /\ DOMAIN edgeCosts # {}

\* Bellman-Ford over the edges of costFn (a function from directed edges to
\* costs >= 0): R is a set of <<node, cost of some path from the source>>

\* the cheapest entry of every node
MinPairs(R) == { p \in R : \A q \in R : q[1] = p[1] => p[2] <= q[2] }

\* one round: extend every known path by every edge that leaves its end
RelaxRound(costFn, R) ==
    MinPairs(R \cup { << x[1][2], x[2][2] + costFn[x[1]] >> :
                        x \in { y \in (DOMAIN costFn) \X R : y[1][1] = y[2][1] } })

RECURSIVE RelaxRounds(_, _, _)
RelaxRounds(costFn, R, k) ==
    IF k = 0 THEN R ELSE RelaxRounds(costFn, RelaxRound(costFn, R), k - 1)

\* cost of the cheapest directed path from src to dst, NoNode if there is none
ShortestDist(costFn, src, dst) ==
    LET R == RelaxRounds(costFn, { <<src, 0>> }, Cardinality(NodeIds))
        hits == { p[2] : p \in { q \in R : q[1] = dst } }
    IN  IF hits = {} THEN NoNode ELSE SetMin(hits)

RECURSIVE SumAlong(_, _, _)
\* the sum of costFn over the consecutive pairs ids[i], ids[i+1], i >= from
SumAlong(costFn, ids, from) ==
    IF from >= Len(ids) THEN 0
    ELSE costFn[<<ids[from], ids[from + 1]>>] + SumAlong(costFn, ids, from + 1)

ConsecutivePairs(ids) == { <<ids[i], ids[i + 1]>> : i \in 1 .. (Len(ids) - 1) }

\* Euclidean length of every directed edge of ValidEdgeSet
EuclidOnValidEdges ==
    [ e \in validEdges |->
        Magnitude(VSub(NodePosition(e[2]), NodePosition(e[1]))) ]

\* Euclidean length of every directed edge between valid 26-neighbours
EuclidOnPotentialEdges ==
    [ e \in PotentialEdges(valid) |->
        Magnitude(VSub(NodePosition(e[2]), NodePosition(e[1]))) ]

Returned(a) == rpc = "returned" /\ algo = a /\ res.success

\* C3: a successful DijkstraRouter.find_path returns a path of stored
\* EdgeCostTable edges from the snapped start to the snapped end whose
\* total_cost is the sum of the stored directed costs along path_node_ids, and
\* no directed path through EdgeCostTable edges between the two is cheaper.
C3_DijkstraOptimal ==
    Returned("dijkstra") =>
        LET ids == res.pathNodeIds
        IN  /\ ids[1] = GetNodeAtPosition(valid, qStart)
            /\ ids[Len(ids)] = GetNodeAtPosition(valid, qEnd)
            /\ ConsecutivePairs(ids) \subseteq DOMAIN edgeCosts
            /\ res.totalCost = SumAlong(edgeCosts, ids, 1)
            /\ res.totalCost <= ShortestDist(edgeCosts, ids[1], ids[Len(ids)])

\* a Dijkstra result over several edges, in wind, where some stored edge
\* into the end node was not taken
C3_Witness ==
    /\ Returned("dijkstra")
    /\ Len(res.pathNodeIds) >= 3
    /\ windVel # <<0, 0, 0>>
    /\ \E e \in DOMAIN edgeCosts :
          /\ e[2] = res.pathNodeIds[Len(res.pathNodeIds)]
          /\ e \notin ConsecutivePairs(res.pathNodeIds)

\* C4: a successful NaiveRouter.find_path returns total_cost equal to the sum
\* of the Euclidean lengths of the edges between consecutive path_node_ids,
\* and no path between the snapped start and end made of ValidEdgeSet edges
\* is shorter.
C4_AstarShortest ==
    Returned("astar") =>
        LET ids == res.pathNodeIds
            goal == ids[Len(ids)]
            best == ShortestDist(EuclidOnValidEdges, ids[1], goal)
        IN  /\ ids[1] = GetNodeAtPosition(valid, qStart)
            /\ goal = GetNodeAtPosition(valid, qEnd)
            /\ ConsecutivePairs(ids) \subseteq PotentialEdges(valid)
            /\ res.totalCost = SumAlong(EuclidOnPotentialEdges, ids, 1)
            /\ best # NoNode => res.totalCost <= best

\* an A* result over several edges in a scene where the collision check
\* removed some, but not all, of the edges
C4_Witness ==
    /\ Returned("astar")
    /\ Len(res.pathNodeIds) >= 3
    /\ validEdges # {}
    /\ validEdges # PotentialEdges(valid)
    /\ ConsecutivePairs(res.pathNodeIds) \subseteq validEdges

\* C5: the path of a successful find_path of either router starts at the
\* caller's exact start position and ends at the caller's exact end position,
\* also when both positions snap to the same lattice node.
C5_ExactEndpoints ==
    (rpc = "returned" /\ res.success) =>
        /\ res.path[1] = qStart
        /\ res.path[Len(res.path)] = qEnd

\* C6: no segment between consecutive waypoints of a successful find_path
\* result is reported as intersecting an occupied voxel by the batch segment
\* query, whatever the edge precomputation produced.
C6_NoSegmentIntersects ==
    (rpc = "returned" /\ res.success) =>
        \A i \in 1 .. (Len(res.path) - 1) :
            ~SegmentIntersects(triangles, occupied, res.path[i], res.path[i + 1])

\* the second of two calls has returned; the first was made on router a1
\* and this one on router a2
Compared(a1, a2) ==
    /\ probe.kind = "result" /\ rpc = "returned"
    /\ probe.algo = a1 /\ algo = a2

\* the cost, in the units of the edge cost table, of a length in the units
\* of Magnitude
CostOfLength(len) == 800 * len

\* an A* call followed by a Dijkstra call for the same query, in a scene
\* with zero wind whose costs were computed under the balanced preset
BalancedStillAir ==
    /\ Compared("astar", "dijkstra")
    /\ probe.start = qStart /\ probe.end = qEnd
    /\ windVel = <<0, 0, 0>> /\ weights = Balanced

\* C22 as stated: with zero wind and zero turbulence and the balanced
\* preset, Dijkstra's total_cost equals the A* total path length
C22_CostEqualsLength ==
    (BalancedStillAir /\ res.success /\ probe.result.success) =>
       res.totalCost = CostOfLength(probe.result.totalCost)

\* C22, amended: with zero wind and zero turbulence and the balanced preset,
\* whenever Dijkstra succeeds so does A*, and Dijkstra's total_cost is the
\* distance weight of the preset, 0.34, times the A* total path length
C22_CostIsWeightedLength ==
    (BalancedStillAir /\ res.success) =>
       /\ probe.result.success
       /\ 100 * res.totalCost = Balanced.distance * CostOfLength(probe.result.totalCost)

\* both routers went around a box over several edges
C22_Witness ==
    /\ BalancedStillAir /\ res.success /\ probe.result.success
    /\ triangles # {}
    /\ validEdges # PotentialEdges(valid)
    /\ Len(res.pathNodeIds) >= 3
    /\ res.totalCost > 0

\* the lattice column (index along X) of the node a position snaps to
SnappedColumn(pos) == GridIndex(GetNodeAtPosition(valid, pos))[1]

\* a Dijkstra call followed by a Dijkstra call for the reversed query, both
\* successful, in a scene without obstacles with a uniform wind along +X
\* whose costs were computed under the speed_priority preset
TailwindThenHeadwind ==
    /\ Compared("dijkstra", "dijkstra")
    /\ probe.start = qEnd /\ probe.end = qStart
    /\ triangles = {} /\ weights = SpeedPriority
    /\ windVel[1] > 0 /\ windVel[2] = 0 /\ windVel[3] = 0
    /\ res.success /\ probe.result.success

\* C23 as stated: the total_cost from a start to an end that lies downwind
\* of it is strictly less than the total_cost of the reversed query
C23_DownwindCheaper ==
    (TailwindThenHeadwind /\ probe.start[1] < probe.end[1]) =>
       probe.result.totalCost < res.totalCost

\* C23, amended: the total_cost from a start to an end whose lattice node
\* lies downwind of the start's lattice node is strictly less than the
\* total_cost of the reversed query
C23_DownwindNodeCheaper ==
    (TailwindThenHeadwind /\ SnappedColumn(probe.start) < SnappedColumn(probe.end)) =>
       probe.result.totalCost < res.totalCost

\* a query flown across the whole grid with the wind, then back against it
C23_Witness ==
    /\ TailwindThenHeadwind
    /\ SnappedColumn(probe.start) + 2 = SnappedColumn(probe.end)
    /\ Len(res.pathNodeIds) >= 3
    /\ res.totalCost > 0

\* C25: after initialization, routing a query and simulating a flight leave
\* the shared structures as they were built: node validity flags, node
\* positions, the edge cost table, the valid edge set, the voxel occupancy
\* and the wind field; the node positions stay the lattice positions also
\* when find_path overrides the endpoints of the path it returns
C25_SharedStructuresUnchanged ==
    /\ [](nodePos = [id \in NodeIds |-> NodePosition(id)])
    /\ [][UNCHANGED <<valid, nodePos, edgeCosts, validEdges, triangles, occupied,
                      windVel, boundsMax, weights>>]_vars

\* a find_path call returned a path whose two ends were overridden with
\* positions that are no lattice positions, and a flight along it streamed
\* frames
C25_Witness ==
    /\ pc \in {"stream", "parallel"}
    /\ \E i \in 1 .. Len(sent) : sent[i].type = "frame"
    /\ req.start # nodePos[GetNodeAtPosition(valid, req.start)]
    /\ req.end # nodePos[GetNodeAtPosition(valid, req.end)]

\* C27: the first frame of a route has time 0 and the position waypoints[0],
\* in stream_simulation, in stream_parallel_simulation and in simulate
C27_FirstFrameAtStart ==
    /\ \A n \in RouteNames :
          FrameSeq(n) # <<>> =>
             /\ FrameSeq(n)[1].time = 0
             /\ FrameSeq(n)[1].pos = routes[PathOf(n)].path[1]
    /\ fsim.frames # <<>> =>
          /\ fsim.frames[1].time = 0
          /\ fsim.frames[1].pos = fsim.path[1]

\* C30: for every successful find_path, path_node_ids starts with the
\* snapped start node, ends with the snapped end node, holds no node twice,
\* and every consecutive pair is a pair of valid 26-neighbours with an entry
\* in the edge cost table (Dijkstra) or in the valid edge set (A* )
C30_PathIsSimpleEdgePath ==
    (rpc = "returned" /\ res.success) =>
        LET ids == res.pathNodeIds
        IN  /\ ids[1] = GetNodeAtPosition(valid, qStart)
            /\ ids[Len(ids)] = GetNodeAtPosition(valid, qEnd)
            /\ \A i, j \in 1 .. Len(ids) : i # j => ids[i] # ids[j]
            /\ ConsecutivePairs(ids) \subseteq PotentialEdges(valid)
            /\ algo = "dijkstra" => ConsecutivePairs(ids) \subseteq DOMAIN edgeCosts
            /\ algo = "astar" => ConsecutivePairs(ids) \subseteq validEdges

====
